---------------------------- MODULE Spec2Model ----------------------------
(***************************************************************************)
(* Model of 7zrpw (src/main.go): archive classification, dictionary        *)
(* loading, the password trial loop around the external 7z tool, and the   *)
(* extraction step.  Strings are TLA+ strings; the Go string functions the *)
(* code calls are defined below by what they compute.                      *)
(***************************************************************************)
EXTENDS Integers, Sequences, FiniteSets, TLC

(***************************************************************************)
(* Go string and path functions used by the code                           *)
(***************************************************************************)

\* strings.HasSuffix
HasSuffix(s, suf) ==
    /\ Len(s) >= Len(suf)
    /\ SubSeq(s, Len(s) - Len(suf) + 1, Len(s)) = suf

\* strings.Contains
Contains(s, sub) ==
    \E i \in 1..(Len(s) - Len(sub) + 1) : SubSeq(s, i, i + Len(sub) - 1) = sub

\* strings.TrimSuffix
TrimSuffix(s, suf) ==
    IF HasSuffix(s, suf) THEN SubSeq(s, 1, Len(s) - Len(suf)) ELSE s

Digits == {"0", "1", "2", "3", "4", "5", "6", "7", "8", "9"}

\* the character at position i of s, as a one-character string
CharAt(s, i) == SubSeq(s, i, i)

LowerOf(c) ==
    CASE c = "A" -> "a" [] c = "P" -> "p" [] c = "R" -> "r" [] c = "T" -> "t"
      [] c = "Z" -> "z" [] c = "I" -> "i" [] c = "B" -> "b" [] c = "G" -> "g"
      [] c = "X" -> "x" [] c = "O" -> "o" [] c = "S" -> "s"
      [] OTHER -> c

RECURSIVE ToLower(_)
\* strings.ToLower, over the letters that occur in the modelled names
ToLower(s) ==
    IF Len(s) = 0 THEN ""
    ELSE LowerOf(CharAt(s, 1)) \o ToLower(SubSeq(s, 2, Len(s)))

Separators == {"/", "\\"}

\* index of the last path separator of p, 0 when there is none
LastSep(p) ==
    LET idx == {i \in 1..Len(p) : CharAt(p, i) \in Separators}
    IN  IF idx = {} THEN 0 ELSE CHOOSE i \in idx : \A j \in idx : j <= i

\* filepath.Base, for non-empty paths that do not end in a separator
Base(p) == SubSeq(p, LastSep(p) + 1, Len(p))

\* filepath.Dir, for the same paths ("." when there is no directory part)
Dir(p) == IF LastSep(p) = 0 THEN "." ELSE SubSeq(p, 1, LastSep(p) - 1)

\* filepath.Join of a directory and a file name
Join(d, f) == IF d = "." THEN f ELSE d \o "/" \o f

\* filepath.Ext: the suffix of the last element from its last dot on
Ext(p) ==
    LET b   == Base(p)
        idx == {i \in 1..Len(b) : CharAt(b, i) = "."}
    IN  IF idx = {} THEN ""
        ELSE SubSeq(b, CHOOSE i \in idx : \A j \in idx : j <= i, Len(b))

\* regexp `<lit>\d{n}$`: s ends with lit followed by exactly n digits
EndsLitDigits(s, lit, n) ==
    /\ Len(s) >= Len(lit) + n
    /\ SubSeq(s, Len(s) - n - Len(lit) + 1, Len(s) - n) = lit
    /\ \A i \in (Len(s) - n + 1)..Len(s) : CharAt(s, i) \in Digits

(***************************************************************************)
(* Archive kinds (src/main.go:101-118)                                     *)
(***************************************************************************)
TYPE_ZIP      == 0
TYPE_RAR      == 1
TYPE_7Z       == 2
TYPE_ZIP_PART == 3
TYPE_RAR_PART == 4
TYPE_7Z_PART  == 5
TYPE_GZ       == 6
TYPE_BZ2      == 7
TYPE_TAR      == 8
TYPE_TAR_PART == 9
TYPE_XZ       == 10
TYPE_CAB      == 11
TYPE_ISO      == 12
TYPE_ARJ      == 13
TYPE_LZH      == 14
TYPE_WIM      == 15
TYPE_UNKNOWN  == -1


(***************************************************************************)
(* Type classifier                                                         *)
(***************************************************************************)

\* filetype.Match result (a MIME value) mapped to a kind; -1 when the switch
\* of getFileType has no case for it
KindOfMime(mime) ==
    CASE mime = "application/zip"                   -> TYPE_ZIP
      [] mime = "application/x-rar-compressed"      -> TYPE_RAR
      [] mime = "application/x-7z-compressed"       -> TYPE_7Z
      [] mime = "application/gzip"                  -> TYPE_GZ
      [] mime = "application/x-bzip2"               -> TYPE_BZ2
      [] mime = "application/x-tar"                 -> TYPE_TAR
      [] mime = "application/x-xz"                  -> TYPE_XZ
      [] mime = "application/vnd.ms-cab-compressed" -> TYPE_CAB
      [] mime = "application/x-iso9660-image"       -> TYPE_ISO
      [] OTHER                                      -> TYPE_UNKNOWN

\* the extension switch of getFileType
KindOfExt(ext) ==
    CASE ext = ".zip"            -> TYPE_ZIP
      [] ext = ".rar"            -> TYPE_RAR
      [] ext = ".7z"             -> TYPE_7Z
      [] ext \in {".gz", ".tgz"}   -> TYPE_GZ
      [] ext \in {".bz2", ".tbz2"} -> TYPE_BZ2
      [] ext = ".tar"            -> TYPE_TAR
      [] ext \in {".xz", ".txz"}   -> TYPE_XZ
      [] ext = ".cab"            -> TYPE_CAB
      [] ext = ".iso"            -> TYPE_ISO
      [] ext = ".arj"            -> TYPE_ARJ
      [] ext \in {".lzh", ".lha"}  -> TYPE_LZH
      [] ext \in {".wim", ".swm"}  -> TYPE_WIM
      [] OTHER                   -> TYPE_UNKNOWN

\* the four volume-name tests of getFileType, on the lower-cased base name
Is7zPartName(b)  == EndsLitDigits(b, ".7z.", 3)
IsZipPartName(b) == Contains(b, ".zip.") \/ HasSuffix(b, ".z01")
IsRarPartName(b) == (Contains(b, ".part") /\ HasSuffix(b, ".rar")) \/ HasSuffix(b, ".r01")
IsTarPartName(b) == EndsLitDigits(b, ".tar.", 3)

\* steps 2-4 of getFileType: open the file, sniff the first 8 KiB, fall back
\* to the extension.  f is the file behind the path: whether it can be
\* opened, whether the read succeeds, and the MIME type its header matches
\* ("" when the header matches no signature).
SniffKind(path, f) ==
    LET baseName == ToLower(Base(path))
        ext      == ToLower(Ext(path))
    IN  IF ~f.openable THEN TYPE_UNKNOWN
        ELSE IF ~f.readable THEN TYPE_UNKNOWN
        ELSE IF KindOfMime(f.mime) # TYPE_UNKNOWN THEN KindOfMime(f.mime)
        ELSE IF KindOfExt(ext) # TYPE_UNKNOWN THEN KindOfExt(ext)
        ELSE IF HasSuffix(baseName, ".tar.gz") THEN TYPE_GZ
        ELSE IF HasSuffix(baseName, ".tar.bz2") THEN TYPE_BZ2
        ELSE IF HasSuffix(baseName, ".tar.xz") THEN TYPE_XZ
        ELSE TYPE_UNKNOWN

\* variant: the content is sniffed before the name is looked at
getFileTypeSniffFirst(path, f) ==
    LET baseName == ToLower(Base(path))
    IN  IF f.openable /\ f.readable /\ KindOfMime(f.mime) # TYPE_UNKNOWN
        THEN [kind |-> KindOfMime(f.mime), opened |-> TRUE]
        ELSE IF Is7zPartName(baseName) THEN [kind |-> TYPE_7Z_PART, opened |-> TRUE]
        ELSE IF IsZipPartName(baseName) THEN [kind |-> TYPE_ZIP_PART, opened |-> TRUE]
        ELSE IF IsRarPartName(baseName) THEN [kind |-> TYPE_RAR_PART, opened |-> TRUE]
        ELSE IF IsTarPartName(baseName) THEN [kind |-> TYPE_TAR_PART, opened |-> TRUE]
        ELSE [kind |-> SniffKind(path, f), opened |-> TRUE]

\* getFileType: the kind it returns, and whether it got as far as os.Open
getFileType(path, f) ==
    LET baseName == ToLower(Base(path))
    IN  IF Is7zPartName(baseName) THEN [kind |-> TYPE_7Z_PART, opened |-> FALSE]
        ELSE IF IsZipPartName(baseName) THEN [kind |-> TYPE_ZIP_PART, opened |-> FALSE]
        ELSE IF IsRarPartName(baseName) THEN [kind |-> TYPE_RAR_PART, opened |-> FALSE]
        ELSE IF IsTarPartName(baseName) THEN [kind |-> TYPE_TAR_PART, opened |-> FALSE]
        ELSE [kind |-> SniffKind(path, f), opened |-> TRUE]

\* isPasswordRequired
isPasswordRequired(fileType) ==
    CASE fileType \in {TYPE_ZIP, TYPE_ZIP_PART, TYPE_RAR, TYPE_RAR_PART,
                       TYPE_7Z, TYPE_ARJ, TYPE_LZH} -> TRUE
      [] fileType \in {TYPE_TAR, TYPE_TAR_PART, TYPE_GZ, TYPE_BZ2, TYPE_XZ,
                       TYPE_ISO, TYPE_WIM, TYPE_CAB} -> FALSE
      [] OTHER -> TRUE

(***************************************************************************)
(* Dictionary loader                                                       *)
(***************************************************************************)

\* the marker of a path with no file behind it
NoFile == [exists |-> FALSE]

\* a regular file with the given bytes
FileOf(bytes) == [exists |-> TRUE, content |-> bytes]

\* a file os.Stat finds and reading fails on: "open" (os.Open fails), "scan"
\* (the scanner ends with an error, as for a line above its buffer) or
\* "timeout" (a file above FILE_SIZE_THRESHOLD not read within 30 seconds)
FaultyFile(bytes, fault) ==
    [exists |-> TRUE, content |-> bytes, fault |-> fault, large |-> fault = "timeout"]

\* a readable file above FILE_SIZE_THRESHOLD, its lines standing for the many
LargeFile(bytes) == [exists |-> TRUE, content |-> bytes, fault |-> "none", large |-> TRUE]

Fault(f) == IF "fault" \in DOMAIN f THEN f.fault ELSE "none"

\* fileSize > FILE_SIZE_THRESHOLD
IsLarge(f) == "large" \in DOMAIN f /\ f.large

\* unicode.IsSpace, over the characters that occur in the modelled files
Spaces == {" ", "\t", "\r", "\n"}

RECURSIVE TrimLeft(_)
TrimLeft(s) ==
    IF Len(s) > 0 /\ CharAt(s, 1) \in Spaces
    THEN TrimLeft(SubSeq(s, 2, Len(s))) ELSE s

RECURSIVE TrimRight(_)
TrimRight(s) ==
    IF Len(s) > 0 /\ CharAt(s, Len(s)) \in Spaces
    THEN TrimRight(SubSeq(s, 1, Len(s) - 1)) ELSE s

\* strings.TrimSpace
TrimSpace(s) == TrimRight(TrimLeft(s))

\* dropCR of bufio.ScanLines
DropCR(s) == IF HasSuffix(s, "\r") THEN SubSeq(s, 1, Len(s) - 1) ELSE s

RECURSIVE ScanLines(_)
\* the tokens bufio.Scanner yields with the default split function: the
\* text before each "\n" without its trailing "\r", and a last unterminated
\* line when it is not empty
ScanLines(bytes) ==
    IF Len(bytes) = 0 THEN << >>
    ELSE LET nl == {i \in 1..Len(bytes) : CharAt(bytes, i) = "\n"}
         IN  IF nl = {} THEN << DropCR(bytes) >>
             ELSE LET i == CHOOSE k \in nl : \A j \in nl : k <= j
                  IN  << DropCR(SubSeq(bytes, 1, i - 1)) >>
                        \o ScanLines(SubSeq(bytes, i + 1, Len(bytes)))

RECURSIVE KeepPasswords(_)
\* the scan loop of readSmallFile: trim each line, keep the non-empty ones
KeepPasswords(lines) ==
    IF lines = << >> THEN << >>
    ELSE LET password == TrimSpace(Head(lines))
         IN  (IF password # "" THEN << password >> ELSE << >>)
               \o KeepPasswords(Tail(lines))

\* variant: the lines are kept as read, without TrimSpace and the blank test
readSmallFileRaw(f) ==
    IF ~f.exists THEN [err |-> TRUE, passwords |-> << >>]
    ELSE [err |-> FALSE, passwords |-> ScanLines(f.content)]

\* readSmallFile(path), f being the file behind path
readSmallFile(f) ==
    IF ~f.exists \/ Fault(f) = "open" THEN [err |-> TRUE, passwords |-> << >>]
    ELSE IF Fault(f) = "scan" THEN [err |-> TRUE, passwords |-> << >>]
    ELSE [err |-> FALSE, passwords |-> KeepPasswords(ScanLines(f.content))]

\* readLargeFile(path) as its caller sees it: the error the goroutine sent,
\* the timeout error, or the passwords the goroutine sent
readLargeFile(f) ==
    IF ~f.exists \/ Fault(f) = "open" THEN [err |-> TRUE, passwords |-> << >>]
    ELSE IF Fault(f) = "scan" THEN [err |-> TRUE, passwords |-> << >>]
    ELSE IF Fault(f) = "timeout" THEN [err |-> TRUE, passwords |-> << >>]
    ELSE [err |-> FALSE, passwords |-> KeepPasswords(ScanLines(f.content))]

\* readPasswordFile(path): os.Stat, then the reader for the file's size
readPasswordFile(f) ==
    IF ~f.exists THEN [err |-> TRUE, passwords |-> << >>]
    ELSE IF IsLarge(f) THEN readLargeFile(f)
    ELSE readSmallFile(f)

RECURSIVE UniquePaths(_, _)
\* the path de-duplication loop of getAllPasswords
UniquePaths(paths, seen) ==
    IF paths = << >> THEN << >>
    ELSE IF Head(paths) \in seen THEN UniquePaths(Tail(paths), seen)
    ELSE << Head(paths) >> \o UniquePaths(Tail(paths), seen \cup {Head(paths)})

SeqRange(q) == {q[i] : i \in 1..Len(q)}

RECURSIVE PasswordMapLast(_, _, _)
\* variant: each file read replaces the map instead of adding to it
PasswordMapLast(paths, files, acc) ==
    IF paths = << >> THEN acc
    ELSE LET r == readPasswordFile(files[Head(paths)])
         IN  PasswordMapLast(Tail(paths), files,
                 IF ~r.err /\ Len(r.passwords) > 0
                 THEN SeqRange(r.passwords) ELSE acc)

RECURSIVE PasswordMapStopOnError(_, _, _)
\* variant: the loop ends at the first file that cannot be read
PasswordMapStopOnError(paths, files, acc) ==
    IF paths = << >> THEN acc
    ELSE LET r == readPasswordFile(files[Head(paths)])
         IN  IF r.err THEN acc
             ELSE PasswordMapStopOnError(Tail(paths), files,
                      IF Len(r.passwords) > 0
                      THEN acc \cup SeqRange(r.passwords) ELSE acc)

RECURSIVE PasswordMap(_, _, _)
\* the read loop of getAllPasswords: the keys of passwordMap after reading
\* the files at paths in order, starting from the keys acc
PasswordMap(paths, files, acc) ==
    IF paths = << >> THEN acc
    ELSE LET r == readPasswordFile(files[Head(paths)])
         IN  PasswordMap(Tail(paths), files,
                 IF ~r.err /\ Len(r.passwords) > 0
                 THEN acc \cup SeqRange(r.passwords) ELSE acc)

\* all orders in which `for pass := range passwordMap` can visit the keys
Orders(S) ==
    {q \in [1..Cardinality(S) -> S] : \A i, j \in 1..Cardinality(S) : q[i] = q[j] => i = j}

\* the dictionary paths of getAllPasswords: current directory first
DictPaths(cwd, exeDir) == << Join(cwd, "passwd.txt"), Join(exeDir, "passwd.txt") >>

(***************************************************************************)
(* Volume resolver and output directory                                    *)
(***************************************************************************)

\* regexp `\.part\d+\.rar$`
IsPartNRar(b) ==
    /\ HasSuffix(b, ".rar")
    /\ \E n \in 1..(Len(b) - 4) : EndsLitDigits(SubSeq(b, 1, Len(b) - 4), ".part", n)

\* strings.Split(s, sep)[0]: the text before the first occurrence of sep
BeforeFirst(s, sep) ==
    LET idx == {i \in 1..(Len(s) - Len(sep) + 1) : SubSeq(s, i, i + Len(sep) - 1) = sep}
    IN  IF idx = {} THEN s
        ELSE SubSeq(s, 1, (CHOOSE i \in idx : \A j \in idx : i <= j) - 1)

\* strings.LastIndex(s, sep), 1-based; 0 when sep does not occur
LastIndex(s, sep) ==
    LET idx == {i \in 1..(Len(s) - Len(sep) + 1) : SubSeq(s, i, i + Len(sep) - 1) = sep}
    IN  IF idx = {} THEN 0 ELSE CHOOSE i \in idx : \A j \in idx : j <= i

\* getFirstVolumePath(archivePath); present is the set of paths for which
\* os.Stat succeeds
getFirstVolumePath(archivePath, present) ==
    LET baseName == Base(archivePath)
        baseDir  == Dir(archivePath)
        cut(n)   == SubSeq(baseName, 1, Len(baseName) - n)
        zip001   == Join(baseDir, cut(8) \o ".zip.001")
        zipMain  == Join(baseDir, cut(4) \o ".zip")
    IN  IF EndsLitDigits(baseName, ".7z.", 3)
        THEN Join(baseDir, cut(7) \o ".7z.001")
        ELSE IF EndsLitDigits(baseName, ".zip.", 3) /\ zip001 \in present
        THEN zip001
        ELSE IF EndsLitDigits(baseName, ".z", 2) /\ zipMain \in present
        THEN zipMain
        ELSE IF IsPartNRar(baseName)
        THEN Join(baseDir, BeforeFirst(baseName, ".part") \o ".part1.rar")
        ELSE IF EndsLitDigits(baseName, ".r", 2)
        THEN Join(baseDir, cut(4) \o ".rar")
        ELSE archivePath

\* variant: the ".partN" tail of the name is kept
getDefaultExtractPathKeepPart(archivePath) ==
    LET baseName == Base(archivePath)
        ext      == Ext(baseName)
        n0       == TrimSuffix(baseName, ext)
        n1       == IF HasSuffix(n0, ".7z") THEN TrimSuffix(n0, ".7z")
                    ELSE IF HasSuffix(n0, ".zip") THEN TrimSuffix(n0, ".zip")
                    ELSE IF HasSuffix(n0, ".rar") THEN TrimSuffix(n0, ".rar")
                    ELSE n0
    IN  Join(Dir(archivePath), n1)

\* getDefaultExtractPath(archivePath)
getDefaultExtractPath(archivePath) ==
    LET baseName == Base(archivePath)
        ext      == Ext(baseName)
        n0       == TrimSuffix(baseName, ext)
        n1       == IF HasSuffix(n0, ".7z") THEN TrimSuffix(n0, ".7z")
                    ELSE IF HasSuffix(n0, ".zip") THEN TrimSuffix(n0, ".zip")
                    ELSE IF HasSuffix(n0, ".rar") THEN TrimSuffix(n0, ".rar")
                    ELSE n0
        idx      == LastIndex(n1, ".part")
        n2       == IF idx # 0 THEN SubSeq(n1, 1, idx - 1) ELSE n1
    IN  Join(Dir(archivePath), n2)

(***************************************************************************)
(* Output classification of testPassword                                   *)
(***************************************************************************)

SuccessMarker == "Everything is Ok"

FailureMarkers ==
    { "Cannot open encrypted archive", "Data Error in encrypted file", "ERROR:",
      "Can't open as archive", "ERROR: Wrong password", "Wrong password",
      "Archives with Errors" }

\* variant: only the generic "ERROR:" marker counts as a failure
classifyErrorOnly(outputStr) ==
    IF Contains(outputStr, SuccessMarker) THEN TRUE
    ELSE IF Contains(outputStr, "ERROR:") THEN FALSE
    ELSE TRUE

\* variant: output with no marker at all counts as a wrong password
classifyStrict(outputStr) ==
    Contains(outputStr, SuccessMarker)

\* the value the goroutine of testPassword posts for the captured output
classifyOutput(outputStr) ==
    IF Contains(outputStr, SuccessMarker) THEN TRUE
    ELSE IF \E m \in FailureMarkers : Contains(outputStr, m) THEN FALSE
    ELSE TRUE

(***************************************************************************)
(* Bounds and the inputs drawn from the environment                        *)
(***************************************************************************)

\* lines in the two passwd.txt files together (dictionary loading on its own)
MaxLines == 3
\* passwords the user types after a failed crack
MaxManual == 1
\* selections the user makes in the interactive menu
MaxRounds == 1

ExeDir  == "e"
WorkDir == "w"

\* lines a dictionary file is made of
RawLines == {"a", " b\r", ""}

RECURSIVE JoinLines(_)
\* the bytes of a text file with the given lines, each ended by "\n"
JoinLines(lines) ==
    IF lines = << >> THEN ""
    ELSE Head(lines) \o "\n" \o JoinLines(Tail(lines))

LinesUpTo(n) == UNION {[1..k -> RawLines] : k \in 0..n}

\* lines the 7z tool prints
OutputLines ==
    { "Testing archive: a.zip\n",
      "Everything is Ok\n",
      "Cannot open encrypted archive\n",
      "Data Error in encrypted file\n",
      "ERROR: f.txt\n",
      "Can't open as archive\n",
      "Wrong password?\n",
      "Archives with Errors: 1\n" }

\* what the tool can have printed when it ends: nothing, one of the lines,
\* or a failure line together with the success line
ToolOutputs ==
    {""} \cup OutputLines
         \cup { "Wrong password?\n" \o "Everything is Ok\n",
                "Everything is Ok\n" \o "ERROR: f.txt\n" }

FileZip  == [openable |-> TRUE, readable |-> TRUE, mime |-> "application/zip"]
FileTar  == [openable |-> TRUE, readable |-> TRUE, mime |-> "application/x-tar"]
FileJunk == [openable |-> TRUE, readable |-> TRUE, mime |-> ""]
FileDeny == [openable |-> FALSE, readable |-> FALSE, mime |-> ""]

\* the archive files on disk, one scenario per element
Disks ==
    { "w/a.zip" :> FileZip,
      "w/a.tar" :> FileTar,
      "w/a.xyz" :> FileJunk,
      "w/a.zip" :> FileDeny,
      ("w/a.7z.001" :> FileJunk) @@ ("w/a.7z.002" :> FileJunk) }

\* where the program runs and what the two passwd.txt hold, one scenario
\* per element: nothing anywhere; one directory, a file with a repeated and
\* a blank line; no passwd.txt in the current directory and an empty or a
\* filled one next to the executable; two files that overlap, the second
\* without a final newline; two files without a password
DictScenarios ==
    { [cwd |-> ExeDir,  exe |-> NoFile,                     work |-> NoFile],
      [cwd |-> ExeDir,  exe |-> FileOf("a\n b\r\n\na\n"), work |-> NoFile],
      [cwd |-> WorkDir, exe |-> FileOf(""),                 work |-> NoFile],
      [cwd |-> WorkDir, exe |-> FileOf("a\n"),              work |-> NoFile],
      [cwd |-> WorkDir, exe |-> FileOf("a\n b\r\n"),       work |-> FileOf("b\n\nc")],
      [cwd |-> WorkDir, exe |-> FileOf(""),                 work |-> FileOf(" \n")] }

\* what the 7z process can have printed when an extraction ends
ExtractOutputs == {"Everything is Ok\n", "ERROR: f.txt\n"}

\* what the user can type at the password prompt of handleCrackFailed
ManualInputs == {"", "m"}

\* what the user can type when asked for a dictionary path
DictInputs == {"", "w/nosuch.txt", "e/passwd.txt"}

(***************************************************************************)
(* Directory listing of the interactive mode                               *)
(***************************************************************************)

CharOrder == "./0123456789_abcdefghijklmnopqrstuvwxyz"

Rank(c) ==
    LET idx == {i \in 1..Len(CharOrder) : CharAt(CharOrder, i) = c}
    IN  IF idx = {} THEN 0 ELSE CHOOSE i \in idx : TRUE

RECURSIVE StrLess(_, _)
\* a < b in the byte order sort.Strings uses
StrLess(a, b) ==
    IF Len(b) = 0 THEN FALSE
    ELSE IF Len(a) = 0 THEN TRUE
    ELSE IF CharAt(a, 1) # CharAt(b, 1) THEN Rank(CharAt(a, 1)) < Rank(CharAt(b, 1))
    ELSE StrLess(SubSeq(a, 2, Len(a)), SubSeq(b, 2, Len(b)))

\* sort.Strings of a set of distinct strings
SortStrings(S) ==
    CHOOSE q \in Orders(S) : \A i, j \in 1..Cardinality(S) : i < j => StrLess(q[i], q[j])

CompressExtensions ==
    { ".zip", ".rar", ".7z", ".gz", ".tgz", ".tar.gz", ".bz2", ".tbz2", ".tar.bz2",
      ".tar", ".xz", ".txz", ".tar.xz", ".cab", ".iso", ".arj", ".lzh", ".lha" }

\* the regular expressions of partPatterns
IsPartListed(n) ==
    \/ \E k \in 1..Len(n) : EndsLitDigits(n, ".zip.", k)
    \/ EndsLitDigits(n, ".z", 2)
    \/ IsPartNRar(n)
    \/ EndsLitDigits(n, ".r", 2)
    \/ \E k \in 1..Len(n) : EndsLitDigits(n, ".7z.", k)
    \/ EndsLitDigits(n, ".tar.", 3)

\* findCompressFiles(dir) for a directory without sub-directories: the names
\* of the listed files, sorted
findCompressFiles(dir, onDisk) ==
    SortStrings({ Base(p) : p \in { q \in DOMAIN onDisk :
        /\ Dir(q) = dir
        /\ LET lowerName == ToLower(Base(q))
           IN  \/ \E e \in CompressExtensions : HasSuffix(lowerName, e)
               \/ IsPartListed(lowerName) } })

(***************************************************************************)
(* Update check: version comparison                                        *)
(***************************************************************************)

\* strings.TrimPrefix
TrimPrefix(s, pre) ==
    IF Len(s) >= Len(pre) /\ SubSeq(s, 1, Len(pre)) = pre
    THEN SubSeq(s, Len(pre) + 1, Len(s)) ELSE s

RECURSIVE Split(_, _)
\* strings.Split with a one-character separator
Split(s, sep) ==
    LET at == {i \in 1..Len(s) : CharAt(s, i) = sep}
    IN  IF at = {} THEN << s >>
        ELSE LET i == CHOOSE k \in at : \A j \in at : k <= j
             IN  << SubSeq(s, 1, i - 1) >> \o Split(SubSeq(s, i + 1, Len(s)), sep)

RECURSIVE CompareParts(_, _, _)
\* the loop of compareVersions from index i on: the parts are compared as
\* strings, then the numbers of parts
CompareParts(currentParts, newParts, i) ==
    IF i <= Len(currentParts) /\ i <= Len(newParts)
    THEN IF StrLess(currentParts[i], newParts[i]) THEN 1
         ELSE IF StrLess(newParts[i], currentParts[i]) THEN -1
         ELSE CompareParts(currentParts, newParts, i + 1)
    ELSE IF Len(newParts) > Len(currentParts) THEN 1
         ELSE IF Len(newParts) < Len(currentParts) THEN -1
         ELSE 0

\* m.compareVersions(newVersion) of the manager with the given CurrentVersion
compareVersions(CurrentVersion, newVersion) ==
    CompareParts(Split(TrimPrefix(CurrentVersion, "v"), "."),
                 Split(TrimPrefix(newVersion, "v"), "."), 1)

(***************************************************************************)
(* State                                                                   *)
(***************************************************************************)
VARIABLES
    cwd,          \* os.Getwd(): ExeDir or WorkDir
    dictFiles,    \* the passwd.txt of ExeDir and of WorkDir: path -> file
    disk,         \* the archive files: path -> what os.Open and the sniffer see
    args,         \* os.Args[1:]
    pc,           \* where the main goroutine is
    mode,         \* "cli", "single" or "batch" once main has chosen
    rounds,       \* menu selections made so far
    event,        \* how the last selection ended before processArchive, if so
    passwords,    \* the candidate list of getAllPasswords
    batch,        \* compressFiles of the batch mode
    bi,           \* files of batch handed to processArchive so far
    archivePath,  \* processArchive: the path, the first volume once resolved
    fileType,     \* processArchive: result of getFileType
    extractPath,  \* processArchive: result of getDefaultExtractPath
    opened,       \* whether the last getFileType went as far as os.Open
    ci,           \* crackArchive: passwords[1..ci] have been taken up
    testedCount,  \* crackArchive: its counter of the same name
    tested,       \* passwords handed to testPassword by this crackArchive
    results,      \* what those calls returned
    crackRet,     \* crackArchive: returned (password, err)
    attempts,     \* testPassword calls whose goroutine is not finished
    tpCaller,     \* call site of the running testPassword
    tpPassword,   \* its password argument
    tpRet,        \* its return value
    manualUsed,   \* passwords typed in handleCrackFailed for this archive
    exCaller,     \* call site of the running extractArchive
    exPassword,   \* its password argument
    exErr,        \* what happened to it: "mkdir", "start", "exit" or "ok"
    exOut,        \* what the 7z process of extractArchive printed
    exRet,        \* the error extractArchive returned: "nil" or "err"
    ticker        \* the progress goroutine of extractArchive

VARIABLES
    currentVersion,    \* CurrentVersion of the UpdateManager of the check
    upc,               \* where the goroutine of asyncCheckUpdate is
    info,              \* CheckUpdate: the VersionInfo the server answered
    compareResult,     \* CheckUpdate: what compareVersions returned
    updateResultChan,  \* the channel of that name, of capacity 1
    updateManager,     \* the global of that name: "nil" or "set"
    updateInfo,        \* the global of that name
    updateMsg,         \* handleUpdateAndExit: the message it received
    du,                \* the doUpdate call of each caller
    updateTmp,         \* update.tmp next to the executable: its bytes or NoTmp
    updateBat,         \* whether update.bat has been written
    launched,          \* callers whose CreateProcess of update.bat succeeded
    exited             \* who called os.Exit, "" while the process lives

VARIABLES
    rl,                \* the readLargeFile call: "idle", "wait" at its select, or
                       \* the branch it returned through
    reader             \* the goroutine readLargeFile started

envVars   == << cwd, disk, args >>
mainVars  == << mode, rounds, event, passwords, batch, bi >>
paVars    == << archivePath, fileType, extractPath, opened >>
crackVars == << ci, testedCount, tested, results, crackRet >>
tpVars    == << attempts, tpCaller, tpPassword, tpRet >>
exVars    == << exCaller, exPassword, exErr, exOut, exRet, ticker >>
updVars   == << currentVersion, upc, info, compareResult, updateResultChan, updateManager,
                updateInfo, updateMsg, du, updateTmp, updateBat, launched, exited >>
rlVars    == << rl, reader >>

vars == << cwd, dictFiles, disk, args, pc, mode, rounds, event, passwords, batch, bi,
           archivePath, fileType, extractPath, opened, ci, testedCount, tested, results,
           crackRet, attempts, tpCaller, tpPassword, tpRet, manualUsed,
           exCaller, exPassword, exErr, exOut, exRet, ticker,
           currentVersion, upc, info, compareResult, updateResultChan, updateManager,
           updateInfo, updateMsg, du, updateTmp, updateBat, launched, exited,
           rl, reader >>

ExeDict  == Join(ExeDir, "passwd.txt")
WorkDict == Join(WorkDir, "passwd.txt")

\* os.Stat(p) succeeds
StatOk(p) ==
    \/ p \in DOMAIN disk
    \/ p \in DOMAIN dictFiles /\ dictFiles[p].exists

\* the file the classifier sees behind p
FileAt(p) == IF p \in DOMAIN disk THEN disk[p] ELSE FileDeny

\* paths the user can type or pick in the menu
TypedPaths == DOMAIN disk \cup {"w/nosuch.zip"}

VERSION == "v0.1.5.4"

\* the zero value of VersionInfo (ReleaseNote only adds text to the message)
ZeroInfo == [Version |-> "", DownloadURL |-> "", MD5 |-> "", ForceUpdate |-> FALSE]

\* update.tmp does not exist
NoTmp == "<none>"

\* doUpdate is called from CheckUpdate and from handleUpdateAndExit
Callers == {"updater", "main"}

\* no doUpdate call of this caller
DuIdle == [pc |-> "idle", info |-> ZeroInfo, download |-> "none", err |-> FALSE]

\* the update check of a manager of version v with its goroutine at upc0
\* and info0 as the server's answer, nothing sent or written yet
UpdInit(v, upc0, info0) ==
    /\ currentVersion = v
    /\ upc = upc0
    /\ info = info0
    /\ compareResult = 0
    /\ updateResultChan = << >>
    /\ updateManager = "nil"
    /\ updateInfo = ZeroInfo
    /\ updateMsg = ""
    /\ du = [c \in Callers |-> DuIdle]
    /\ updateTmp = NoTmp
    /\ updateBat = FALSE
    /\ launched = {}
    /\ exited = ""

\* the main path before main has run, at pc0, with path0 as the path at hand
MainInit(pc0, path0) ==
    /\ pc = pc0
    /\ rl = "idle"
    /\ reader = "none"
    /\ mode = ""
    /\ rounds = 0
    /\ event = "none"
    /\ passwords = << >>
    /\ batch = << >>
    /\ bi = 0
    /\ archivePath = path0
    /\ fileType = TYPE_UNKNOWN
    /\ extractPath = ""
    /\ opened = FALSE
    /\ ci = 0
    /\ testedCount = 0
    /\ tested = << >>
    /\ results = << >>
    /\ crackRet = [password |-> "", err |-> FALSE]
    /\ attempts = << >>
    /\ tpCaller = ""
    /\ tpPassword = ""
    /\ tpRet = FALSE
    /\ manualUsed = 0
    /\ exCaller = ""
    /\ exPassword = ""
    /\ exErr = ""
    /\ exOut = ""
    /\ exRet = ""
    /\ ticker = "off"

\* the program with no network: the goroutine of asyncCheckUpdate has come
\* back from http.Get with an error
ProgInit(pc0, path0) ==
    /\ MainInit(pc0, path0)
    /\ UpdInit(VERSION, "done", ZeroInfo)

Init ==
    /\ \E d \in DictScenarios :
         /\ cwd = d.cwd
         /\ dictFiles = (ExeDict :> d.exe) @@ (WorkDict :> d.work)
    /\ disk \in Disks
    /\ args \in {<< >>} \cup {<< p >> : p \in DOMAIN disk}
    /\ ProgInit("main", "")

(***************************************************************************)
(* getAllPasswords, testPassword and extractArchive as called from actions *)
(***************************************************************************)

\* the keys of passwordMap when getAllPasswords has read the dictionaries
LoadedMap == PasswordMap(UniquePaths(DictPaths(cwd, ExeDir), {}), dictFiles, {})

\* what the callers of getAllPasswords are left with: on its error an empty
\* list, otherwise the keys of the map in the order the range loop saw them
GetAllPasswordsResults ==
    IF LoadedMap = {} THEN {<< >>} ELSE Orders(LoadedMap)

\* testPassword up to its select: the command is built, the result channel
\* made and the goroutine started
TPCall(password, caller) ==
    /\ attempts' = Append(attempts,
           [g |-> "spawned", proc |-> "none", out |-> "", chan |-> "empty"])
    /\ tpCaller' = caller
    /\ tpPassword' = password
    /\ tpRet' = FALSE
    /\ pc' = "tp_wait"

\* entry of extractArchive
EXCall(password, caller) ==
    /\ exCaller' = caller
    /\ exPassword' = password
    /\ exErr' = ""
    /\ exOut' = ""
    /\ exRet' = ""
    /\ pc' = "ex_begin"

\* the sequence q without its element at position k
Without(q, k) == SubSeq(q, 1, k - 1) \o SubSeq(q, k + 1, Len(q))

(***************************************************************************)
(* main                                                                    *)
(***************************************************************************)

\* main up to the argument switch: passwd.txt is created next to the
\* executable when missing (the result of os.Create is not looked at)
Main_Start ==
    /\ pc = "main"
    /\ IF dictFiles[ExeDict].exists
       THEN UNCHANGED dictFiles
       ELSE \E created \in BOOLEAN :
              dictFiles' = IF created THEN [dictFiles EXCEPT ![ExeDict] = FileOf("")]
                           ELSE dictFiles
    /\ IF args # << >> /\ args[1] \in DOMAIN disk
       THEN mode' = "cli" /\ pc' = "cli_load"
       ELSE mode' = "" /\ pc' = "menu"
    /\ UNCHANGED << envVars, updVars, rlVars, rounds, event, passwords, batch, bi, paVars, crackVars,
                    tpVars, manualUsed, exVars >>

\* command-line file argument: load the dictionary, classify, process
CLI_Load ==
    /\ pc = "cli_load"
    /\ passwords' \in GetAllPasswordsResults
    /\ IF getFileType(args[1], FileAt(args[1])).kind # TYPE_UNKNOWN
       THEN /\ archivePath' = args[1]
            /\ event' = "none"
            /\ pc' = "pa_begin"
       ELSE /\ event' = "unsupported"
            /\ pc' = "done"
            /\ UNCHANGED archivePath
    /\ UNCHANGED << envVars, updVars, rlVars, dictFiles, mode, rounds, batch, bi, fileType, extractPath,
                    opened, crackVars, tpVars, manualUsed, exVars >>

\* interactive menu: quit
Menu_Quit ==
    /\ pc = "menu"
    /\ pc' = "done"
    /\ UNCHANGED << envVars, updVars, rlVars, dictFiles, mainVars, paVars, crackVars, tpVars,
                    manualUsed, exVars >>

\* interactive menu: 'a', every listed archive of the current directory
Menu_All ==
    /\ pc = "menu"
    /\ rounds < MaxRounds
    /\ LET files == findCompressFiles(cwd, disk)
       IN  /\ files # << >>
           /\ batch' = [i \in 1..Len(files) |-> Join(cwd, files[i])]
    /\ passwords' \in GetAllPasswordsResults
    /\ mode' = "batch"
    /\ bi' = 0
    /\ rounds' = rounds + 1
    /\ event' = "none"
    /\ pc' = "batch_next"
    /\ UNCHANGED << envVars, updVars, rlVars, dictFiles, paVars, crackVars, tpVars, manualUsed, exVars >>

\* the loop over compressFiles, and handleUpdateAndExit after it
Batch_Next ==
    /\ pc = "batch_next"
    /\ IF bi < Len(batch)
       THEN /\ bi' = bi + 1
            /\ archivePath' = batch[bi + 1]
            /\ pc' = "pa_begin"
       ELSE /\ pc' = "update"
            /\ UNCHANGED << bi, archivePath >>
    /\ UNCHANGED << envVars, updVars, rlVars, dictFiles, mode, rounds, event, passwords, batch, fileType,
                    extractPath, opened, crackVars, tpVars, manualUsed, exVars >>

\* fmt.Scanln(&v) on one typed line: an empty line is an error ("unexpected
\* newline") that leaves v as it was
Scanln(old, typed) == IF typed = "" THEN old ELSE typed

\* interactive menu: one file, picked by number or typed as a path; then the
\* checks before processArchive: passwd.txt in the current directory (a path
\* is asked for when it is missing), the archive, the dictionary path, the
\* file type
Menu_Single ==
    /\ pc = "menu"
    /\ rounds < MaxRounds
    /\ rounds' = rounds + 1
    /\ mode' = "single"
    /\ \E p \in TypedPaths : \E answer \in DictInputs :
         LET default     == Join(cwd, "passwd.txt")
             haveDefault == StatOk(default)
             dictPath    == IF haveDefault THEN default ELSE Scanln(default, answer)
         IN  /\ haveDefault => answer = ""
             /\ archivePath' = p
             /\ IF dictPath = ""
                THEN event' = "nodict_exit" /\ pc' = "done" /\ UNCHANGED passwords
                ELSE IF ~StatOk(p)
                THEN event' = "missing" /\ pc' = "menu" /\ UNCHANGED passwords
                ELSE IF ~StatOk(dictPath)
                THEN event' = "nodict_skip" /\ pc' = "menu" /\ UNCHANGED passwords
                ELSE IF getFileType(p, FileAt(p)).kind = TYPE_UNKNOWN
                THEN event' = "unsupported" /\ pc' = "menu" /\ UNCHANGED passwords
                ELSE /\ passwords' \in GetAllPasswordsResults
                     /\ event' = "none"
                     /\ pc' = "pa_begin"
    /\ UNCHANGED << envVars, updVars, rlVars, dictFiles, batch, bi, fileType, extractPath, opened, crackVars,
                    tpVars, manualUsed, exVars >>

\* handleUpdateAndExit when no update message is waiting, and what follows
\* it: the end of main in command-line mode, the menu otherwise
HandleUpdateAndExit ==
    /\ pc = "update"
    /\ updateResultChan = << >>
    /\ pc' = IF mode = "cli" THEN "done" ELSE "menu"
    /\ passwords' = << >>
    /\ batch' = << >>
    /\ bi' = 0
    /\ UNCHANGED << envVars, updVars, rlVars, dictFiles, mode, rounds, event, paVars, crackVars, tpVars,
                    manualUsed, exVars >>

(***************************************************************************)
(* processArchive                                                          *)
(***************************************************************************)

\* processArchive up to its first blocking call
PA_Begin ==
    /\ pc = "pa_begin"
    /\ manualUsed' = 0
    /\ IF ~StatOk(archivePath)
       THEN /\ pc' = "pa_ret"
            /\ UNCHANGED << paVars, exVars >>
       ELSE LET kind == getFileType(archivePath, FileAt(archivePath)).kind
            IN  /\ fileType' = kind
                /\ opened' = getFileType(archivePath, FileAt(archivePath)).opened
                /\ extractPath' = getDefaultExtractPath(archivePath)
                /\ archivePath' = getFirstVolumePath(archivePath, DOMAIN disk)
                /\ IF ~isPasswordRequired(kind)
                   THEN EXCall("", "nopass") /\ UNCHANGED ticker
                   ELSE pc' = "crack_begin" /\ UNCHANGED exVars
    /\ UNCHANGED << envVars, updVars, rlVars, dictFiles, mainVars, crackVars, tpVars >>

\* processArchive after crackArchive: handleExtract or handleCrackFailed
PA_AfterCrack ==
    /\ pc = "crack_ret"
    /\ IF ~crackRet.err
       THEN EXCall(crackRet.password, "found") /\ UNCHANGED ticker
       ELSE pc' = "hcf_prompt" /\ UNCHANGED exVars
    /\ UNCHANGED << envVars, updVars, rlVars, dictFiles, mainVars, paVars, crackVars, tpVars, manualUsed >>

\* return of processArchive to its caller; its locals and those of the
\* functions it called are gone
PA_Return ==
    /\ pc = "pa_ret"
    /\ pc' = IF mode = "batch" THEN "batch_next" ELSE "update"
    /\ archivePath' = ""
    /\ fileType' = TYPE_UNKNOWN
    /\ extractPath' = ""
    /\ opened' = FALSE
    /\ ci' = 0
    /\ testedCount' = 0
    /\ tested' = << >>
    /\ results' = << >>
    /\ crackRet' = [password |-> "", err |-> FALSE]
    /\ tpCaller' = ""
    /\ tpPassword' = ""
    /\ tpRet' = FALSE
    /\ manualUsed' = 0
    /\ exCaller' = ""
    /\ exPassword' = ""
    /\ exErr' = ""
    /\ exOut' = ""
    /\ exRet' = ""
    /\ UNCHANGED << envVars, updVars, rlVars, dictFiles, mainVars, attempts, ticker >>

(***************************************************************************)
(* crackArchive                                                            *)
(***************************************************************************)

\* variant: the loop is entered without the empty-password probe
Crack_BeginNoProbe ==
    /\ pc = "crack_begin"
    /\ tested' = << >>
    /\ results' = << >>
    /\ ci' = 0
    /\ testedCount' = 0
    /\ pc' = "crack_loop"
    /\ UNCHANGED << envVars, updVars, rlVars, dictFiles, mainVars, paVars, crackRet, tpVars,
                    manualUsed, exVars >>

\* crackArchive: the empty password is tried first
Crack_Begin ==
    /\ pc = "crack_begin"
    /\ tested' = << "" >>
    /\ results' = << >>
    /\ ci' = 0
    /\ testedCount' = 0
    /\ TPCall("", "empty")
    /\ UNCHANGED << envVars, updVars, rlVars, dictFiles, mainVars, paVars, crackRet, manualUsed, exVars >>

\* crackArchive: the empty password was tested
Crack_AfterEmpty ==
    /\ pc = "tp_ret"
    /\ tpCaller = "empty"
    /\ results' = Append(results, tpRet)
    /\ IF tpRet
       THEN /\ crackRet' = [password |-> "", err |-> FALSE]
            /\ pc' = "crack_ret"
       ELSE /\ pc' = "crack_loop"
            /\ UNCHANGED crackRet
    /\ UNCHANGED << envVars, updVars, rlVars, dictFiles, mainVars, paVars, ci, testedCount, tested,
                    tpVars, manualUsed, exVars >>

\* variant: the loop goes on after an accepted candidate and returns the
\* last accepted one
Crack_AfterDictKeepGoing ==
    /\ pc = "tp_ret"
    /\ tpCaller = "dict"
    /\ results' = Append(results, tpRet)
    /\ IF tpRet /\ ci = Len(passwords)
       THEN /\ crackRet' = [password |-> passwords[ci], err |-> FALSE]
            /\ pc' = "crack_ret"
       ELSE /\ pc' = "crack_loop"
            /\ UNCHANGED crackRet
    /\ UNCHANGED << envVars, updVars, rlVars, dictFiles, mainVars, paVars, ci, testedCount, tested,
                    tpVars, manualUsed, exVars >>

\* crackArchive: head of the loop over passwords, and the return after it
Crack_Loop ==
    /\ pc = "crack_loop"
    /\ IF ci < Len(passwords)
       THEN /\ ci' = ci + 1
            /\ testedCount' = testedCount + 1
            /\ tested' = Append(tested, passwords[ci + 1])
            /\ TPCall(passwords[ci + 1], "dict")
            /\ UNCHANGED crackRet
       ELSE /\ crackRet' = [password |-> "", err |-> TRUE]
            /\ pc' = "crack_ret"
            /\ UNCHANGED << ci, testedCount, tested, tpVars >>
    /\ UNCHANGED << envVars, updVars, rlVars, dictFiles, mainVars, paVars, results, manualUsed, exVars >>

\* crackArchive: a candidate was tested
Crack_AfterDict ==
    /\ pc = "tp_ret"
    /\ tpCaller = "dict"
    /\ results' = Append(results, tpRet)
    /\ IF tpRet
       THEN /\ crackRet' = [password |-> passwords[ci], err |-> FALSE]
            /\ pc' = "crack_ret"
       ELSE /\ pc' = "crack_loop"
            /\ UNCHANGED crackRet
    /\ UNCHANGED << envVars, updVars, rlVars, dictFiles, mainVars, paVars, ci, testedCount, tested,
                    tpVars, manualUsed, exVars >>

(***************************************************************************)
(* testPassword: the calling goroutine, the goroutine it starts, and the   *)
(* 7z process.  The running call is the last element of attempts; earlier  *)
(* elements are goroutines of calls that returned through the timer.       *)
(***************************************************************************)

\* the goroutine reaches cmd.Start inside CombinedOutput.  When the tool
\* cannot be started CombinedOutput returns at once with no output, and the
\* goroutine classifies the empty text and posts the result.
G_Start(k) ==
    /\ pc \notin {"done", "panic"}
    /\ k \in 1..Len(attempts)
    /\ attempts[k].g = "spawned"
    /\ \E started \in BOOLEAN :
         attempts' = [attempts EXCEPT ![k] =
             IF started
             THEN [@ EXCEPT !.g = "running", !.proc = "running"]
             ELSE [@ EXCEPT !.g = "done", !.proc = "failed",
                            !.chan = IF classifyOutput("") THEN "true" ELSE "false"]]
    /\ UNCHANGED << envVars, updVars, rlVars, dictFiles, pc, mainVars, paVars, crackVars, tpCaller,
                    tpPassword, tpRet, manualUsed, exVars >>

\* the 7z process ends.  Left alone it has printed one of ToolOutputs; after
\* Kill it ends with whatever it had printed, modelled as nothing (nobody
\* receives the result of that goroutine).
P_Exit(k) ==
    /\ pc \notin {"done", "panic"}
    /\ k \in 1..Len(attempts)
    /\ attempts[k].proc \in {"running", "killed"}
    /\ \E o \in ToolOutputs :
         /\ attempts[k].proc = "killed" => o = ""
         /\ attempts' = [attempts EXCEPT ![k] = [@ EXCEPT !.proc = "exited", !.out = o]]
    /\ UNCHANGED << envVars, updVars, rlVars, dictFiles, pc, mainVars, paVars, crackVars, tpCaller,
                    tpPassword, tpRet, manualUsed, exVars >>

\* CombinedOutput returns in the goroutine (the process is waited for), the
\* output is classified and the result sent on the buffered channel.  The
\* goroutine of a call that has already returned ends here unobserved.
G_Finish(k) ==
    /\ pc \notin {"done", "panic"}
    /\ k \in 1..Len(attempts)
    /\ attempts[k].g = "running"
    /\ attempts[k].proc = "exited"
    /\ IF k = Len(attempts) /\ pc = "tp_wait"
       THEN attempts' = [attempts EXCEPT ![k] =
                [@ EXCEPT !.g = "done", !.proc = "reaped",
                          !.chan = IF classifyOutput(attempts[k].out)
                                   THEN "true" ELSE "false"]]
       ELSE attempts' = Without(attempts, k)
    /\ UNCHANGED << envVars, updVars, rlVars, dictFiles, pc, mainVars, paVars, crackVars, tpCaller,
                    tpPassword, tpRet, manualUsed, exVars >>

\* select: a result is on resultChan
TP_Result ==
    /\ pc = "tp_wait"
    /\ attempts[Len(attempts)].chan # "empty"
    /\ tpRet' = (attempts[Len(attempts)].chan = "true")
    /\ attempts' = Without(attempts, Len(attempts))
    /\ pc' = "tp_ret"
    /\ UNCHANGED << envVars, updVars, rlVars, dictFiles, mainVars, paVars, crackVars, tpCaller,
                    tpPassword, manualUsed, exVars >>

\* select: the 2-second timer.  cmd.Process is nil as long as the goroutine
\* has not started the process, and the call on it then panics; otherwise
\* the process is sent the kill (an error of Kill, as for a process that has
\* ended, is ignored) and true is returned without waiting for it.  The
\* output the abandoned goroutine holds is never looked at again and is
\* dropped from the state.
TP_Timeout ==
    /\ pc = "tp_wait"
    /\ LET k == Len(attempts)
           a == attempts[k]
       IN  IF a.proc \in {"none", "failed"}
           THEN /\ pc' = "panic"
                /\ UNCHANGED << attempts, tpRet >>
           ELSE /\ tpRet' = TRUE
                /\ pc' = "tp_ret"
                /\ attempts' =
                     IF a.g = "done" THEN Without(attempts, k)
                     ELSE [attempts EXCEPT ![k] =
                              [@ EXCEPT !.proc = IF @ = "running" THEN "killed" ELSE @,
                                        !.out = ""]]
    /\ UNCHANGED << envVars, updVars, rlVars, dictFiles, mainVars, paVars, crackVars, tpCaller,
                    tpPassword, manualUsed, exVars >>

(***************************************************************************)
(* handleCrackFailed, handleExtract, extractArchive, savePasswordToFile    *)
(***************************************************************************)

\* savePasswordToFile: the passwd.txt next to the executable afterwards
\* (a missing file reads as empty and is created by the append)
savePasswordToFile(files, password) ==
    LET content == IF files[ExeDict].exists THEN files[ExeDict].content ELSE ""
    IN  IF Contains(content, password) THEN files
        ELSE [files EXCEPT ![ExeDict] = FileOf(
                 content
                 \o (IF Len(content) > 0 /\ ~HasSuffix(content, "\n") THEN "\n" ELSE "")
                 \o password \o "\n")]

\* handleCrackFailed: the prompt.  An empty line returns; anything else is
\* tested.
HCF_Prompt ==
    /\ pc = "hcf_prompt"
    /\ \E password \in ManualInputs :
         IF password = ""
         THEN /\ pc' = "pa_ret"
              /\ UNCHANGED << tpVars, manualUsed >>
         ELSE /\ manualUsed < MaxManual
              /\ manualUsed' = manualUsed + 1
              /\ TPCall(password, "manual")
    /\ UNCHANGED << envVars, updVars, rlVars, dictFiles, mainVars, paVars, crackVars, exVars >>

\* variant: the typed password is used whatever testPassword returned
HCF_AfterTestAlways ==
    /\ pc = "tp_ret"
    /\ tpCaller = "manual"
    /\ EXCall(tpPassword, "manual")
    /\ UNCHANGED ticker
    /\ UNCHANGED << envVars, updVars, rlVars, dictFiles, mainVars, paVars, crackVars, tpVars, manualUsed >>

\* handleCrackFailed: the typed password was tested
HCF_AfterTest ==
    /\ pc = "tp_ret"
    /\ tpCaller = "manual"
    /\ IF tpRet
       THEN EXCall(tpPassword, "manual") /\ UNCHANGED ticker
       ELSE pc' = "hcf_prompt" /\ UNCHANGED exVars
    /\ UNCHANGED << envVars, updVars, rlVars, dictFiles, mainVars, paVars, crackVars, tpVars, manualUsed >>

\* extractArchive up to cmd.Run: the output directory is made when missing
\* (which can fail), the ticker goroutine is started
EX_Begin ==
    /\ pc = "ex_begin"
    /\ \E dirOk \in BOOLEAN :
         IF dirOk
         THEN ticker' = "select" /\ pc' = "ex_run" /\ UNCHANGED << exErr, exRet >>
         ELSE exErr' = "mkdir" /\ exRet' = "err" /\ pc' = "ex_ret" /\ UNCHANGED ticker
    /\ UNCHANGED << envVars, updVars, rlVars, dictFiles, mainVars, paVars, crackVars, tpVars,
                    manualUsed, exCaller, exPassword, exOut >>

\* cmd.Run returns: the tool ran and exited with status 0, exited with
\* another status, or could not be started
EX_RunDone ==
    /\ pc = "ex_run"
    /\ exErr' \in {"ok", "exit", "start"}
    /\ exOut' \in IF exErr' = "start" THEN {""} ELSE ExtractOutputs
    /\ pc' = "ex_stop"
    /\ UNCHANGED << envVars, updVars, rlVars, dictFiles, mainVars, paVars, crackVars, tpVars,
                    manualUsed, exCaller, exPassword, exRet, ticker >>

\* variant: the goroutine ends after its report instead of looping
T_TickOnce ==
    /\ ticker = "select"
    /\ pc = "ex_run"
    /\ ticker' = "off"
    /\ UNCHANGED << envVars, updVars, rlVars, dictFiles, pc, mainVars, paVars, crackVars, tpVars,
                    manualUsed, exCaller, exPassword, exErr, exOut, exRet >>

\* ticker goroutine: nothing on done, print the elapsed time and sleep
T_Tick ==
    /\ ticker = "select"
    /\ pc = "ex_run"
    /\ ticker' = "sleep"
    /\ UNCHANGED << envVars, updVars, rlVars, dictFiles, pc, mainVars, paVars, crackVars, tpVars,
                    manualUsed, exCaller, exPassword, exErr, exOut, exRet >>

\* ticker goroutine: time.Sleep is over, back to the select
T_Wake ==
    /\ ticker = "sleep"
    /\ pc \in {"ex_run", "ex_stop"}
    /\ ticker' = "select"
    /\ UNCHANGED << envVars, updVars, rlVars, dictFiles, pc, mainVars, paVars, crackVars, tpVars,
                    manualUsed, exCaller, exPassword, exErr, exOut, exRet >>

\* variant: success is read from the text the tool printed
EX_StopByOutput ==
    /\ pc = "ex_stop"
    /\ ticker = "select"
    /\ ticker' = "off"
    /\ exRet' = IF Contains(exOut, SuccessMarker) THEN "nil" ELSE "err"
    /\ pc' = "ex_ret"
    /\ UNCHANGED << envVars, updVars, rlVars, dictFiles, mainVars, paVars, crackVars, tpVars,
                    manualUsed, exCaller, exPassword, exErr, exOut >>

\* variant: extractArchive returns without the send on done
EX_StopNoSignal ==
    /\ pc = "ex_stop"
    /\ exRet' = IF exErr # "ok" THEN "err" ELSE "nil"
    /\ pc' = "ex_ret"
    /\ UNCHANGED << envVars, updVars, rlVars, dictFiles, mainVars, paVars, crackVars, tpVars,
                    manualUsed, exCaller, exPassword, exErr, exOut, ticker >>

\* done <- true meets the ticker's receive; the ticker returns and
\* extractArchive goes on to its report and returns the error of cmd.Run
EX_Stop ==
    /\ pc = "ex_stop"
    /\ ticker = "select"
    /\ ticker' = "off"
    /\ exRet' = IF exErr # "ok" THEN "err" ELSE "nil"
    /\ pc' = "ex_ret"
    /\ UNCHANGED << envVars, updVars, rlVars, dictFiles, mainVars, paVars, crackVars, tpVars,
                    manualUsed, exCaller, exPassword, exErr, exOut >>

\* extractArchive has returned into handleExtract or processArchive; after
\* handleExtract, handleCrackFailed saves the typed password
EX_Return ==
    /\ pc = "ex_ret"
    /\ dictFiles' = IF exCaller = "manual"
                    THEN savePasswordToFile(dictFiles, exPassword)
                    ELSE dictFiles
    /\ pc' = "pa_ret"
    /\ UNCHANGED << envVars, updVars, rlVars, mainVars, paVars, crackVars, tpVars, manualUsed, exVars >>

(***************************************************************************)
(* Specification                                                           *)
(***************************************************************************)
Next ==
    \/ Main_Start
    \/ CLI_Load
    \/ Menu_Quit
    \/ Menu_All
    \/ Batch_Next
    \/ Menu_Single
    \/ HandleUpdateAndExit
    \/ PA_Begin
    \/ PA_AfterCrack
    \/ PA_Return
    \/ Crack_Begin
    \/ Crack_AfterEmpty
    \/ Crack_Loop
    \/ Crack_AfterDict
    \/ \E k \in 1..Len(attempts) : G_Start(k)
    \/ \E k \in 1..Len(attempts) : P_Exit(k)
    \/ \E k \in 1..Len(attempts) : G_Finish(k)
    \/ TP_Result
    \/ TP_Timeout
    \/ HCF_Prompt
    \/ HCF_AfterTest
    \/ EX_Begin
    \/ EX_RunDone
    \/ T_Tick
    \/ T_Wake
    \/ EX_Stop
    \/ EX_Return

Spec == Init /\ [][Next]_vars

\* the program with its goroutines scheduled: the ticker's time.Sleep ends,
\* and a send on done that finds the ticker at its receive is completed
SpecLive ==
    /\ Init
    /\ [][Next]_vars
    /\ WF_vars(T_Wake)
    /\ WF_vars(EX_Stop)

(***************************************************************************)
(* The update check: the goroutine of asyncCheckUpdate, doUpdate, and      *)
(* handleUpdateAndExit when a message is waiting                           *)
(***************************************************************************)

\* the bytes of the new executable
Artifact == "exe"

\* what the download URL can serve (the HTTP status is not looked at)
Bodies == {Artifact, "old"}

\* calculateMD5: the digest in hex, different for different bytes
MD5Of(bytes) == "md5:" \o bytes

\* what the version server can answer
Responses ==
    [Version : {VERSION, "v0.1.6"}, DownloadURL : {"u"},
     MD5 : {"", MD5Of(Artifact)}, ForceUpdate : BOOLEAN]
    \cup {ZeroInfo, [ZeroInfo EXCEPT !.Version = "v0.1.6"]}

\* the text CheckUpdate builds for a new version, and the one for none
NewVersionMsg(i) == "new version: " \o i.Version

LatestMsg == "up to date"

\* strings.Contains(updateMsg, ...) of handleUpdateAndExit
IsNewVersionMsg(m) == Contains(m, "new version")

\* CheckUpdate up to the parsed answer: any failure on the way returns an
\* error, and so does an answer without version or download URL
U_Fetch ==
    /\ upc = "start"
    /\ exited = ""
    /\ \E ok \in BOOLEAN : \E r \in Responses :
         IF ok /\ r.Version # "" /\ r.DownloadURL # ""
         THEN info' = r /\ upc' = "compare"
         ELSE upc' = "done" /\ UNCHANGED info
    /\ UNCHANGED << envVars, rlVars, dictFiles, pc, mainVars, paVars, crackVars, tpVars, manualUsed,
                    exVars, currentVersion, compareResult, updateResultChan, updateManager,
                    updateInfo, updateMsg, du, updateTmp, updateBat, launched, exited >>

\* CheckUpdate(false) from compareVersions to the branch it takes: nothing
\* newer and a forced flag returns, nothing newer sends "up to date" if the
\* channel has room
U_Compare ==
    /\ upc = "compare"
    /\ exited = ""
    /\ compareResult' = compareVersions(currentVersion, info.Version)
    /\ IF compareResult' = 1
       THEN upc' = "set_info" /\ UNCHANGED updateResultChan
       ELSE /\ upc' = "done"
            /\ updateResultChan' =
                 IF ~info.ForceUpdate /\ Len(updateResultChan) < 1
                 THEN Append(updateResultChan, LatestMsg)
                 ELSE updateResultChan
    /\ UNCHANGED << envVars, rlVars, dictFiles, pc, mainVars, paVars, crackVars, tpVars, manualUsed,
                    exVars, currentVersion, info, updateManager,
                    updateInfo, updateMsg, du, updateTmp, updateBat, launched, exited >>

\* updateInfo = info
U_SetInfo ==
    /\ upc = "set_info"
    /\ exited = ""
    /\ updateInfo' = info
    /\ upc' = "set_manager"
    /\ UNCHANGED << envVars, rlVars, dictFiles, pc, mainVars, paVars, crackVars, tpVars, manualUsed,
                    exVars, currentVersion, info, compareResult, updateResultChan,
                    updateManager, updateMsg, du, updateTmp, updateBat, launched, exited >>

\* variant: the manager is not stored before the message is sent
U_SetManagerSkipped ==
    /\ upc = "set_manager"
    /\ exited = ""
    /\ upc' = "send"
    /\ UNCHANGED << envVars, rlVars, dictFiles, pc, mainVars, paVars, crackVars, tpVars, manualUsed,
                    exVars, currentVersion, info, compareResult, updateResultChan,
                    updateManager, updateInfo, updateMsg, du, updateTmp, updateBat,
                    launched, exited >>

\* updateManager = m
U_SetManager ==
    /\ upc = "set_manager"
    /\ exited = ""
    /\ updateManager' = "set"
    /\ upc' = "send"
    /\ UNCHANGED << envVars, rlVars, dictFiles, pc, mainVars, paVars, crackVars, tpVars, manualUsed,
                    exVars, currentVersion, info, compareResult, updateResultChan,
                    updateInfo, updateMsg, du, updateTmp, updateBat, launched, exited >>

\* a doUpdate call of caller c with VersionInfo i, at its first step
DuCall(c, i) ==
    [du EXCEPT ![c] = [pc |-> "get", info |-> i, download |-> "none", err |-> FALSE]]

\* updateResultChan <- updateMsg.String(), which waits for room, and after
\* it m.doUpdate(info) when the server forces the update
U_Send ==
    /\ upc = "send"
    /\ exited = ""
    /\ Len(updateResultChan) < 1
    /\ updateResultChan' = Append(updateResultChan, NewVersionMsg(info))
    /\ IF info.ForceUpdate
       THEN upc' = "update" /\ du' = DuCall("updater", info)
       ELSE upc' = "done" /\ UNCHANGED du
    /\ UNCHANGED << envVars, rlVars, dictFiles, pc, mainVars, paVars, crackVars, tpVars, manualUsed,
                    exVars, currentVersion, info, compareResult, updateManager,
                    updateInfo, updateMsg, updateTmp, updateBat, launched, exited >>

\* doUpdate of caller c returns an error: CheckUpdate returns it and the
\* goroutine ends; handleUpdateAndExit goes on from it in HUE_AfterUpdate
DuError(c) ==
    /\ du' = [du EXCEPT ![c].pc = "ret", ![c].err = TRUE]
    /\ upc' = IF c = "updater" THEN "done" ELSE upc

\* doUpdate: http.Get of the download URL and os.Create of update.tmp
DU_Get(c) ==
    /\ du[c].pc = "get"
    /\ exited = ""
    /\ \E got \in BOOLEAN : \E created \in BOOLEAN :
         IF got /\ created
         THEN /\ updateTmp' = ""
              /\ du' = [du EXCEPT ![c].pc = "download"]
              /\ UNCHANGED upc
         ELSE DuError(c) /\ UNCHANGED updateTmp
    /\ UNCHANGED << envVars, rlVars, dictFiles, pc, mainVars, paVars, crackVars, tpVars, manualUsed,
                    exVars, currentVersion, info, compareResult, updateResultChan,
                    updateManager, updateInfo, updateMsg, updateBat, launched, exited >>

\* doUpdate: the download goroutine copies the body until Read or Write
\* fails or the body ends, then doUpdate takes its value from done and
\* closes the file.  With the other caller writing update.tmp at the same
\* time the bytes of the file are those of neither
DU_Download(c) ==
    /\ du[c].pc = "download"
    /\ exited = ""
    /\ \E body \in Bodies : \E outcome \in {"complete", "readErr", "writeErr"} :
       \E k \in 0..(Len(body) - 1) : \E mixed \in BOOLEAN :
         /\ mixed => \E o \in Callers \ {c} : du[o].pc \in {"download", "verify"}
         /\ updateTmp' = IF mixed THEN "mix"
                         ELSE IF outcome = "complete" THEN body
                         ELSE SubSeq(body, 1, k)
         /\ du' = [du EXCEPT ![c].pc = "verify", ![c].download = outcome]
    /\ UNCHANGED << envVars, rlVars, dictFiles, pc, mainVars, paVars, crackVars, tpVars, manualUsed,
                    exVars, currentVersion, upc, info, compareResult, updateResultChan,
                    updateManager, updateInfo, updateMsg, updateBat, launched, exited >>

\* doUpdate: with an MD5 in the VersionInfo, update.tmp is read again and
\* its digest compared; the file is removed when that fails
DU_Verify(c) ==
    /\ du[c].pc = "verify"
    /\ exited = ""
    /\ IF du[c].info.MD5 # ""
       THEN \E readable \in BOOLEAN :
              IF readable /\ updateTmp # NoTmp /\ MD5Of(updateTmp) = du[c].info.MD5
              THEN du' = [du EXCEPT ![c].pc = "script"] /\ UNCHANGED << upc, updateTmp >>
              ELSE DuError(c) /\ updateTmp' = NoTmp
       ELSE du' = [du EXCEPT ![c].pc = "script"] /\ UNCHANGED << upc, updateTmp >>
    /\ UNCHANGED << envVars, rlVars, dictFiles, pc, mainVars, paVars, crackVars, tpVars, manualUsed,
                    exVars, currentVersion, info, compareResult, updateResultChan,
                    updateManager, updateInfo, updateMsg, updateBat, launched, exited >>

\* doUpdate after the countdown: update.bat is written and started with
\* CreateProcess, then os.Exit(0) ends the process wherever main is
DU_Script(c) ==
    /\ du[c].pc = "script"
    /\ exited = ""
    /\ \E wrote \in BOOLEAN : \E started \in BOOLEAN :
         /\ updateBat' = (updateBat \/ wrote)
         /\ IF wrote /\ started
            THEN /\ launched' = launched \cup {c}
                 /\ exited' = c
                 /\ pc' = "exit"
                 /\ du' = [du EXCEPT ![c].pc = "exit"]
                 /\ UNCHANGED upc
            ELSE DuError(c) /\ UNCHANGED << launched, exited, pc >>
    /\ UNCHANGED << envVars, rlVars, dictFiles, mainVars, paVars, crackVars, tpVars, manualUsed,
                    exVars, currentVersion, info, compareResult, updateResultChan,
                    updateManager, updateInfo, updateMsg, updateTmp >>

\* what main does after handleUpdateAndExit (see HandleUpdateAndExit)
HUE_Return ==
    /\ pc' = IF mode = "cli" THEN "done" ELSE "menu"
    /\ passwords' = << >>
    /\ batch' = << >>
    /\ bi' = 0

\* handleUpdateAndExit with a message waiting: it is taken from the channel;
\* a text that is not about a new version returns, another is shown
HUE_Receive ==
    /\ pc = "update"
    /\ updateResultChan # << >>
    /\ updateMsg' = Head(updateResultChan)
    /\ updateResultChan' = Tail(updateResultChan)
    /\ IF IsNewVersionMsg(updateMsg')
       THEN pc' = "hue_prompt" /\ UNCHANGED << passwords, batch, bi >>
       ELSE HUE_Return
    /\ UNCHANGED << envVars, rlVars, dictFiles, mode, rounds, event, paVars, crackVars, tpVars,
                    manualUsed, exVars, currentVersion, upc, info, compareResult,
                    updateManager, updateInfo, du, updateTmp, updateBat, launched, exited >>

\* what the user can answer to the update question
UpdateAnswers == {"", "y", "n"}

\* handleUpdateAndExit: the answer is read; a no, a read error or a nil
\* updateManager return, otherwise updateManager.doUpdate(updateInfo)
HUE_Answer ==
    /\ pc = "hue_prompt"
    /\ \E readOk \in BOOLEAN : \E answer \in UpdateAnswers :
         IF readOk /\ answer \in {"", "y", "yes"} /\ updateManager # "nil"
         THEN /\ du' = DuCall("main", updateInfo)
              /\ pc' = "hue_update"
              /\ UNCHANGED << passwords, batch, bi >>
         ELSE HUE_Return /\ UNCHANGED du
    /\ UNCHANGED << envVars, rlVars, dictFiles, mode, rounds, event, paVars, crackVars, tpVars,
                    manualUsed, exVars, currentVersion, upc, info, compareResult,
                    updateResultChan, updateManager, updateInfo, updateMsg, updateTmp,
                    updateBat, launched, exited >>

\* handleUpdateAndExit: doUpdate came back with an error
HUE_AfterUpdate ==
    /\ pc = "hue_update"
    /\ du["main"].pc = "ret"
    /\ HUE_Return
    /\ UNCHANGED << envVars, rlVars, dictFiles, mode, rounds, event, paVars, crackVars, tpVars,
                    manualUsed, exVars, updVars >>

\* the program started on one archive that needs no password, the update
\* check on its way
UpdateInit ==
    /\ cwd = WorkDir
    /\ dictFiles = (ExeDict :> FileOf("a\n")) @@ (WorkDict :> NoFile)
    /\ disk = ("w/a.tar" :> FileTar)
    /\ args = << "w/a.tar" >>
    /\ MainInit("main", "")
    /\ UpdInit(VERSION, "start", ZeroInfo)

UpdateNext ==
    \/ Main_Start
    \/ CLI_Load
    \/ PA_Begin
    \/ EX_Begin
    \/ EX_RunDone
    \/ T_Tick
    \/ T_Wake
    \/ EX_Stop
    \/ EX_Return
    \/ PA_Return
    \/ HandleUpdateAndExit
    \/ HUE_Receive
    \/ HUE_Answer
    \/ HUE_AfterUpdate
    \/ U_Fetch
    \/ U_Compare
    \/ U_SetInfo
    \/ U_SetManager
    \/ U_Send
    \/ \E c \in Callers : DU_Get(c)
    \/ \E c \in Callers : DU_Download(c)
    \/ \E c \in Callers : DU_Verify(c)
    \/ \E c \in Callers : DU_Script(c)

SpecUpdate == UpdateInit /\ [][UpdateNext]_vars

(***************************************************************************)
(* compareVersions on its own: two version strings, then the comparison of *)
(* CheckUpdate                                                             *)
(***************************************************************************)
Versions == {"v0.1.5.4", "0.1.5.4", "v0.1.9", "v0.1.10", "v0.2", "v0.1", "v1.0.0", "v0.1.5.10"}

VersionInit ==
    /\ cwd = WorkDir
    /\ dictFiles = (ExeDict :> NoFile) @@ (WorkDict :> NoFile)
    /\ disk = << >>
    /\ args = << >>
    /\ MainInit("idle", "")
    /\ \E v \in Versions : \E n \in Versions : \E f \in BOOLEAN :
         UpdInit(v, "compare",
                 [Version |-> n, DownloadURL |-> "u", MD5 |-> "", ForceUpdate |-> f])

VersionNext == U_Compare

SpecVersion == VersionInit /\ [][VersionNext]_vars

(***************************************************************************)
(* Dictionary loading on its own: every pair of passwd.txt files of up to  *)
(* MaxLines lines together, then one call of getAllPasswords               *)
(***************************************************************************)
DictInit ==
    /\ cwd \in {ExeDir, WorkDir}
    /\ \E le, lw \in LinesUpTo(MaxLines) : \E me, mw \in BOOLEAN :
         /\ Len(le) + Len(lw) <= MaxLines
         /\ me => le = << >>
         /\ mw => lw = << >>
         /\ cwd = ExeDir => mw
         /\ dictFiles = (ExeDict :> (IF me THEN NoFile ELSE FileOf(JoinLines(le))))
                        @@ (WorkDict :> (IF mw THEN NoFile ELSE FileOf(JoinLines(lw))))
    /\ disk = << >>
    /\ args = << >>
    /\ ProgInit("load", "")

\* passwords, passwordsInfo, err := getAllPasswords(), as its callers use it
Dict_Load ==
    /\ pc = "load"
    /\ passwords' \in GetAllPasswordsResults
    /\ pc' = "loaded"
    /\ UNCHANGED << envVars, updVars, rlVars, dictFiles, mode, rounds, event, batch, bi, paVars,
                    crackVars, tpVars, manualUsed, exVars >>

DictNext == Dict_Load

SpecDict == DictInit /\ [][DictNext]_vars

(***************************************************************************)
(* The classifier on its own: a path, a file behind it or none, then one   *)
(* call of getFileType                                                     *)
(***************************************************************************)
NameStems == {"a", "w/B"}
NameMids  == {"", ".zip", ".ZIP", ".7z", ".tar", ".part2", ".partx"}
NameEnds  == { ".001", ".01", ".00a", ".z01", ".z02", ".rar", ".RAR", ".r01", ".r02",
               ".zip", ".7Z.002", ".tar", ".gz", ".txt", "" }

PathNames == {st \o m \o e : st \in NameStems, m \in NameMids, e \in NameEnds}

PathInit ==
    /\ cwd = WorkDir
    /\ dictFiles = (ExeDict :> NoFile) @@ (WorkDict :> NoFile)
    /\ args = << >>
    /\ \E n \in PathNames :
         /\ disk \in {<< >>} \cup {n :> f : f \in {FileZip, FileTar, FileJunk, FileDeny}}
         /\ ProgInit("classify", n)

\* fileType := getFileType(archivePath)
Path_Classify ==
    /\ pc = "classify"
    /\ fileType' = getFileType(archivePath, FileAt(archivePath)).kind
    /\ opened' = getFileType(archivePath, FileAt(archivePath)).opened
    /\ pc' = "classified"
    /\ UNCHANGED << envVars, updVars, rlVars, dictFiles, mainVars, archivePath, extractPath, crackVars,
                    tpVars, manualUsed, exVars >>

PathNext == Path_Classify

SpecPath == PathInit /\ [][PathNext]_vars

(***************************************************************************)
(* Dictionary loading twice over the same files: getAllPasswords is called *)
(* for every selection of the interactive mode                             *)
(***************************************************************************)

\* getAllPasswords called again, the files being as they were
Dict_Reload ==
    /\ pc = "loaded"
    /\ passwords' \in GetAllPasswordsResults
    /\ pc' = "reloaded"
    /\ UNCHANGED << envVars, updVars, rlVars, dictFiles, mode, rounds, event, batch, bi, paVars,
                    crackVars, tpVars, manualUsed, exVars >>

OrderNext == Dict_Load \/ Dict_Reload

SpecOrder == DictInit /\ [][OrderNext]_vars

(***************************************************************************)
(* Dictionary loading with one file that cannot be read                    *)
(***************************************************************************)

\* what stands at the path of the file that fails
FailingFiles ==
    {NoFile} \cup {FaultyFile(b, x) : b \in {"a\n", "c\n"}, x \in {"open", "scan", "timeout"}}

\* what stands at the other path
ReadableFiles ==
    {FileOf(JoinLines(l)) : l \in LinesUpTo(MaxLines)} \cup {LargeFile("a\nd\n")}

FaultInit ==
    /\ cwd = WorkDir
    /\ \E bad \in FailingFiles : \E good \in ReadableFiles : \E p \in {ExeDict, WorkDict} :
         dictFiles = [q \in {ExeDict, WorkDict} |-> IF q = p THEN bad ELSE good]
    /\ disk = << >>
    /\ args = << >>
    /\ ProgInit("load", "")

SpecFault == FaultInit /\ [][DictNext]_vars

(***************************************************************************)
(* Saving a password on its own: a passwd.txt next to the executable (or    *)
(* none), a password that testPassword accepted, then savePasswordToFile    *)
(* called once and once again                                              *)
(***************************************************************************)
SavedLines == {"a", "abc", "b", "bc"}

SavePasswords == {"b", "abc", "c", "bc"}

\* the texts a passwd.txt can hold: up to two lines, the last one with or
\* without its line end
SaveContents ==
    {""} \cup { l \o e : l \in SavedLines, e \in {"", "\n"} }
         \cup { l \o "\n" \o k \o e : l \in SavedLines, k \in SavedLines, e \in {"", "\n"} }

SaveInit ==
    /\ cwd = WorkDir
    /\ \E f \in {NoFile} \cup {FileOf(c) : c \in SaveContents} :
         dictFiles = (ExeDict :> f) @@ (WorkDict :> NoFile)
    /\ disk = << >>
    /\ args = << >>
    /\ \E p \in SavePasswords :
         /\ exPassword = p
         /\ exCaller = "manual"
         /\ mode = "" /\ rounds = 0 /\ event = "none"
         /\ passwords = << >> /\ batch = << >> /\ bi = 0
         /\ archivePath = "" /\ fileType = TYPE_UNKNOWN /\ extractPath = ""
         /\ opened = FALSE
         /\ ci = 0 /\ testedCount = 0 /\ tested = << >> /\ results = << >>
         /\ crackRet = [password |-> "", err |-> FALSE]
         /\ attempts = << >> /\ tpCaller = "" /\ tpPassword = "" /\ tpRet = TRUE
         /\ manualUsed = 0
         /\ exErr = "" /\ exOut = "" /\ exRet = "nil" /\ ticker = "off"
         /\ UpdInit(VERSION, "done", ZeroInfo)
         /\ rl = "idle"
         /\ reader = "none"
         /\ pc = "save"

\* savePasswordToFile(password), called by handleCrackFailed
Save_Call ==
    /\ pc \in {"save", "saved"}
    /\ dictFiles' = savePasswordToFile(dictFiles, exPassword)
    /\ pc' = IF pc = "save" THEN "saved" ELSE "saved_again"
    /\ UNCHANGED << envVars, updVars, rlVars, mainVars, paVars, crackVars, tpVars, manualUsed, exVars >>

SaveNext == Save_Call

SpecSave == SaveInit /\ [][SaveNext]_vars

(***************************************************************************)
(* Dictionary loading of a file saved with a byte-order mark               *)
(***************************************************************************)

\* the byte-order mark U+FEFF at the head of a text file, one character
\* here.  unicode.IsSpace(U+FEFF) is false, so it is not in Spaces
BOM == "#"

BomLines == {BOM \o "a", BOM, "a", " b\r", ""}

BomInit ==
    /\ cwd = ExeDir
    /\ \E k \in 0..MaxLines : \E l \in [1..k -> BomLines] : \E big \in BOOLEAN :
         /\ \A i \in 2..k : l[i] \in RawLines
         /\ dictFiles = (ExeDict :> (IF big THEN LargeFile(JoinLines(l))
                                            ELSE FileOf(JoinLines(l))))
                        @@ (WorkDict :> NoFile)
    /\ disk = << >>
    /\ args = << >>
    /\ ProgInit("load", "")

SpecBom == BomInit /\ [][DictNext]_vars

(***************************************************************************)
(* readLargeFile with its reader goroutine: a passwd.txt above the size    *)
(* threshold next to the executable, then one call                          *)
(***************************************************************************)
LargeInit ==
    /\ cwd = ExeDir
    /\ \E l \in LinesUpTo(MaxLines) : \E x \in {"none", "open", "scan"} :
         dictFiles = (ExeDict :> [LargeFile(JoinLines(l)) EXCEPT !.fault = x])
                     @@ (WorkDict :> NoFile)
    /\ disk = << >>
    /\ args = << >>
    /\ ProgInit("load", "")

\* readLargeFile up to its select: the two unbuffered channels are made and
\* the goroutine started
RL_Call ==
    /\ pc = "load"
    /\ rl = "idle"
    /\ rl' = "wait"
    /\ reader' = "open"
    /\ UNCHANGED << envVars, updVars, dictFiles, pc, mainVars, paVars, crackVars, tpVars,
                    manualUsed, exVars >>

\* goroutine: os.Open; on an error it goes to send it on errorChan
R_Open ==
    /\ reader = "open"
    /\ reader' = IF Fault(dictFiles[ExeDict]) = "open" THEN "send_error" ELSE "scan"
    /\ UNCHANGED << envVars, updVars, dictFiles, pc, mainVars, paVars, crackVars, tpVars,
                    manualUsed, exVars, rl >>

\* goroutine: the scan loop and scanner.Err; it goes to send the error on
\* errorChan or the passwords on resultChan
R_Scan ==
    /\ reader = "scan"
    /\ reader' = IF Fault(dictFiles[ExeDict]) = "scan" THEN "send_error" ELSE "send_result"
    /\ UNCHANGED << envVars, updVars, dictFiles, pc, mainVars, paVars, crackVars, tpVars,
                    manualUsed, exVars, rl >>

\* select: the goroutine's send on resultChan meets the receive; readLargeFile
\* returns the passwords and the goroutine ends
RL_Result ==
    /\ rl = "wait"
    /\ reader = "send_result"
    /\ rl' = "result"
    /\ reader' = "done"
    /\ passwords' = KeepPasswords(ScanLines(dictFiles[ExeDict].content))
    /\ pc' = "loaded"
    /\ UNCHANGED << envVars, updVars, dictFiles, mode, rounds, event, batch, bi, paVars,
                    crackVars, tpVars, manualUsed, exVars >>

\* select: the goroutine's send on errorChan meets the receive
RL_Error ==
    /\ rl = "wait"
    /\ reader = "send_error"
    /\ rl' = "error"
    /\ reader' = "done"
    /\ pc' = "loaded"
    /\ UNCHANGED << envVars, updVars, dictFiles, mainVars, paVars, crackVars, tpVars,
                    manualUsed, exVars >>

\* select: the 30-second timer; readLargeFile returns the timeout error and
\* nothing receives from the two channels any more
RL_Timeout ==
    /\ rl = "wait"
    /\ rl' = "timeout"
    /\ pc' = "loaded"
    /\ UNCHANGED << envVars, updVars, dictFiles, mainVars, paVars, crackVars, tpVars,
                    manualUsed, exVars, reader >>

LargeNext ==
    \/ RL_Call
    \/ R_Open
    \/ R_Scan
    \/ RL_Result
    \/ RL_Error
    \/ RL_Timeout

\* every step that can be taken is taken in the end: the goroutine runs
\* when it can, and the select returns through a branch that is ready
SpecLarge ==
    /\ LargeInit
    /\ [][LargeNext]_vars
    /\ WF_vars(RL_Call)
    /\ WF_vars(R_Open)
    /\ WF_vars(R_Scan)
    /\ WF_vars(RL_Result \/ RL_Error \/ RL_Timeout)

(***************************************************************************)
(* Volume handling on its own: the volumes of one archive, some of them on *)
(* disk, one of them selected, then processArchive up to the resolved path *)
(***************************************************************************)

\* the files of one archive each, the first volume first
VolumeSets ==
    { << "w/a.7z.001", "w/a.7z.002" >>,
      << "w/B.7Z.001", "w/B.7Z.002" >>,
      << "w/a.zip.001", "w/a.zip.002" >>,
      << "w/a.zip", "w/a.z01", "w/a.z02" >>,
      << "w/backup.part1.rar", "w/backup.part2.rar", "w/backup.part10.rar" >>,
      << "w/my.party.part1.rar", "w/my.party.part2.rar" >>,
      << "w/a.rar", "w/a.r00", "w/a.r01" >>,
      << "w/a.tar.001", "w/a.tar.002" >>,
      << "w/plain.zip" >> }

\* the set the file n is a volume of
VolumeSetOf(n) == CHOOSE v \in VolumeSets : n \in SeqRange(v)

VolInit ==
    /\ cwd = WorkDir
    /\ dictFiles = (ExeDict :> NoFile) @@ (WorkDict :> NoFile)
    /\ \E v \in VolumeSets : \E n \in SeqRange(v) :
       \E others \in SUBSET (SeqRange(v) \ {n}) : \E f \in {FileZip, FileJunk} :
         /\ disk = [q \in others \cup {n} |-> f]
         /\ args = << n >>
         /\ ProgInit("resolve", n)

\* processArchive from getFileType to the first volume taken as archivePath
Vol_Resolve ==
    /\ pc = "resolve"
    /\ fileType' = getFileType(archivePath, FileAt(archivePath)).kind
    /\ opened' = getFileType(archivePath, FileAt(archivePath)).opened
    /\ extractPath' = getDefaultExtractPath(archivePath)
    /\ archivePath' = getFirstVolumePath(archivePath, DOMAIN disk)
    /\ pc' = "resolved"
    /\ UNCHANGED << envVars, updVars, rlVars, dictFiles, mainVars, crackVars, tpVars, manualUsed, exVars >>

VolNext == Vol_Resolve

SpecVolume == VolInit /\ [][VolNext]_vars

(***************************************************************************)
(* Properties                                                              *)
(***************************************************************************)

\* the testPassword call the main goroutine is waiting in
Cur == attempts[Len(attempts)]

HasFailureMarker(outputStr) == \E m \in FailureMarkers : Contains(outputStr, m)

\* the running call's process ended by itself, its output was classified and
\* the result is on the channel
CurPosted ==
    /\ pc = "tp_wait"
    /\ Cur.g = "done"
    /\ Cur.proc = "reaped"

NoDuplicates(q) == \A i, j \in 1..Len(q) : q[i] = q[j] => i = j

\* C1: crackArchive hands the empty password to testPassword before any
\* dictionary candidate (a candidate is only ever under test after the empty
\* password was tested and rejected), and when the empty password is
\* accepted it returns ("", nil) with nothing else handed to testPassword.
C1_EmptyPasswordFirst ==
    /\ Len(tested) >= 1 => tested[1] = ""
    /\ Len(tested) >= 2 => (Len(results) >= 1 /\ results[1] = FALSE)
    /\ (pc \in {"tp_wait", "tp_ret"} /\ tpCaller = "dict") =>
           (Len(tested) >= 2 /\ tested[1] = "" /\ results[1] = FALSE)
    /\ (Len(results) >= 1 /\ results[1]) =>
           (tested = << "" >> /\ ci = 0 /\ results = << TRUE >>)
    /\ (pc = "crack_ret" /\ Len(results) >= 1 /\ results[1]) =>
           crackRet = [password |-> "", err |-> FALSE]
    /\ pc = "crack_ret" => Len(results) >= 1

\* crackArchive has returned on an accepted empty password although the
\* dictionary held candidates
C1_Witness ==
    /\ pc = "crack_ret"
    /\ results = << TRUE >>
    /\ tested = << "" >>
    /\ Len(passwords) >= 2
    /\ crackRet = [password |-> "", err |-> FALSE]

\* C2: when crackArchive returns a password after the empty password was
\* rejected, that password is the candidate at some position k of the list,
\* the calls of testPassword were exactly the empty password and candidates
\* 1..k in list order, all rejected but the last.
C2_FirstAcceptedCandidate ==
    (pc = "crack_ret" /\ ~crackRet.err /\ results[1] = FALSE) =>
        \E k \in 1..Len(passwords) :
            /\ crackRet.password = passwords[k]
            /\ tested = << "" >> \o SubSeq(passwords, 1, k)
            /\ Len(results) = k + 1
            /\ \A j \in 1..k : results[j] = FALSE
            /\ results[k + 1] = TRUE

\* the second of three candidates was accepted
C2_Witness ==
    /\ pc = "crack_ret"
    /\ ~crackRet.err
    /\ Len(passwords) = 3
    /\ tested = << "", passwords[1], passwords[2] >>
    /\ results = << FALSE, FALSE, TRUE >>
    /\ crackRet.password = passwords[2]

\* C3: when crackArchive returns its error (nothing was accepted), its count
\* of tried passwords is 1 + the number of candidates.
C3_TriedCountIncludesProbe ==
    (pc = "crack_ret" /\ crackRet.err) => testedCount = 1 + Len(passwords)

\* C4: once testPassword has returned, no 7z process it started is still
\* running or waiting to be reaped.
C4_NoSubprocessAfterReturn ==
    pc = "tp_ret" =>
        \A k \in 1..Len(attempts) : attempts[k].proc \notin {"running", "killed", "exited"}

\* C5 as stated: a result received from a process that ended by itself with
\* a failure marker in its output is false, whatever else the output holds.
C5_FailureMarkerRejected ==
    [][ (TP_Result /\ Cur.proc = "reaped" /\ HasFailureMarker(Cur.out))
            => tpRet' = FALSE ]_vars

\* C5: a result received from a process that ended by itself with a failure
\* marker and without the success marker in its output is false.
C5_FailureMarkerRejectedUnlessOk ==
    [][ (TP_Result /\ Cur.proc = "reaped" /\ HasFailureMarker(Cur.out)
            /\ ~Contains(Cur.out, SuccessMarker))
            => tpRet' = FALSE ]_vars

\* a wrong-password line was all the process printed; it was classified and
\* false was posted
C5_Witness ==
    /\ CurPosted
    /\ Cur.out = "Wrong password?\n"
    /\ Cur.chan = "false"

\* C6: a result received from a process that ended by itself with neither
\* the success marker nor a failure marker in its output is true.
C6_NoMarkerAccepted ==
    [][ (TP_Result /\ Cur.proc = "reaped" /\ ~HasFailureMarker(Cur.out)
            /\ ~Contains(Cur.out, SuccessMarker))
            => tpRet' = TRUE ]_vars

\* output without any marker was classified and posted as true
C6_Witness ==
    /\ CurPosted
    /\ Cur.out = "Testing archive: a.zip\n"
    /\ ~HasFailureMarker(Cur.out)
    /\ Cur.chan = "true"

\* C7: the passwords one crackArchive hands to testPassword are pairwise
\* different, the empty one included, and the candidate list holds no empty
\* string.
C7_NoPasswordTestedTwice ==
    /\ NoDuplicates(tested)
    /\ NoDuplicates(passwords)
    /\ "" \notin SeqRange(passwords)

\* a dictionary with a repeated line and a blank line was gone through
\* to the end
C7_Witness ==
    /\ pc = "crack_ret"
    /\ crackRet.err
    /\ dictFiles[ExeDict].exists
    /\ dictFiles[ExeDict].content = "a\n b\r\n\na\n"
    /\ Len(tested) = 3

\* the passwords of one dictionary file, by the rule the claim states:
\* its lines, trimmed, without the blank ones
TrimmedLines(f) ==
    IF ~f.exists THEN {}
    ELSE {TrimSpace(l) : l \in SeqRange(ScanLines(f.content))} \ {""}

\* C8: the loaded candidates are the distinct non-blank trimmed lines of the
\* two files, each once; reading the files in the other order gives the same
\* set, and so does merging the files in again.
C8_MergeIsSetUnion ==
    pc = "loaded" =>
        LET paths == UniquePaths(DictPaths(cwd, ExeDir), {})
            back  == [i \in 1..Len(paths) |-> paths[Len(paths) + 1 - i]]
            lines == TrimmedLines(dictFiles[ExeDict])
                       \cup (IF cwd = WorkDir THEN TrimmedLines(dictFiles[WorkDict]) ELSE {})
        IN  /\ SeqRange(passwords) = lines
            /\ Len(passwords) = Cardinality(lines)
            /\ PasswordMap(back, dictFiles, {}) = PasswordMap(paths, dictFiles, {})
            /\ PasswordMap(paths, dictFiles, SeqRange(passwords)) = SeqRange(passwords)
            /\ PasswordMap(back, dictFiles, SeqRange(passwords)) = SeqRange(passwords)

\* two files that share a password and each hold one of their own
C8_Witness ==
    /\ pc = "loaded"
    /\ cwd = WorkDir
    /\ dictFiles[ExeDict].exists
    /\ dictFiles[WorkDict].exists
    /\ TrimmedLines(dictFiles[ExeDict]) \cap TrimmedLines(dictFiles[WorkDict]) # {}
    /\ TrimmedLines(dictFiles[ExeDict]) # TrimmedLines(dictFiles[WorkDict])
    /\ Len(passwords) = 2

\* C9: in every mode, an existing archive of a supported kind is handed to
\* processArchive also when the dictionaries give no candidate; the
\* selection does not end at the dictionary check.
C9_NoDictionaryNonFatal ==
    (/\ mode \in {"cli", "single", "batch"}
     /\ archivePath \in DOMAIN disk
     /\ getFileType(archivePath, FileAt(archivePath)).kind # TYPE_UNKNOWN
     /\ LoadedMap = {})
        => event \notin {"nodict_exit", "nodict_skip"}

\* C10: a path whose lower-cased base name matches a volume-name pattern is
\* classified as the *_PART kind of the first pattern it matches, in the
\* order 7z, zip, rar, tar, and the file is not opened, whether it is
\* missing, unreadable or holds something else.
C10_VolumeNameDecides ==
    pc = "classified" =>
        LET b   == ToLower(Base(archivePath))
            p7z == EndsLitDigits(b, ".7z.", 3)
            pzp == Contains(b, ".zip.") \/ HasSuffix(b, ".z01")
            prr == (Contains(b, ".part") /\ HasSuffix(b, ".rar")) \/ HasSuffix(b, ".r01")
            ptr == EndsLitDigits(b, ".tar.", 3)
        IN  /\ p7z => fileType = TYPE_7Z_PART
            /\ (pzp /\ ~p7z) => fileType = TYPE_ZIP_PART
            /\ (prr /\ ~pzp /\ ~p7z) => fileType = TYPE_RAR_PART
            /\ (ptr /\ ~prr /\ ~pzp /\ ~p7z) => fileType = TYPE_TAR_PART
            /\ (p7z \/ pzp \/ prr \/ ptr) =>
                   (~opened /\ fileType \in {TYPE_7Z_PART, TYPE_ZIP_PART,
                                             TYPE_RAR_PART, TYPE_TAR_PART})

\* a rar volume name in upper case with a zip file behind it
C10_Witness ==
    /\ pc = "classified"
    /\ archivePath = "w/B.part2.RAR"
    /\ disk = ("w/B.part2.RAR" :> FileZip)
    /\ fileType = TYPE_RAR_PART
    /\ ~opened

\* C11: whichever volume of a set is selected, processArchive goes on with
\* the first volume of that set.
C11_FirstVolumeResolved ==
    pc = "resolved" => archivePath = VolumeSetOf(args[1])[1]

NoPasswordKinds ==
    { TYPE_TAR, TYPE_TAR_PART, TYPE_GZ, TYPE_BZ2, TYPE_XZ, TYPE_ISO, TYPE_WIM, TYPE_CAB }

\* where the main goroutine is inside crackArchive, handleCrackFailed or a
\* testPassword they called
InCrackStage ==
    pc \in {"crack_begin", "crack_loop", "crack_ret", "tp_wait", "tp_ret", "hcf_prompt"}

\* where the main goroutine is inside extractArchive
InExtract == pc \in {"ex_begin", "ex_run", "ex_stop", "ex_ret"}

\* C13: while an archive of a kind that needs no password is processed, no
\* dictionary candidate has been loaded, nothing has been handed to
\* testPassword, and control is never in the crack stage.
C13_NoPasswordKindSkipsDictionary ==
    fileType \in NoPasswordKinds =>
        /\ passwords = << >>
        /\ tested = << >>
        /\ ~InCrackStage

\* C14: testPassword and extractArchive are never reached for a file that
\* getFileType has classified as unknown.
C14_UnknownStopsProcessing ==
    (InCrackStage \/ InExtract) => fileType # TYPE_UNKNOWN

\* C15: extractArchive returns no error exactly when the output directory
\* was there or could be made and the 7z process was started and ended with
\* status 0, whatever the process printed.
C15_ExtractSuccessByExitStatus ==
    pc = "ex_ret" =>
        /\ exRet \in {"nil", "err"}
        /\ exRet = "nil" <=> exErr = "ok"
        /\ exErr \in {"mkdir", "start", "exit"} => exRet = "err"

\* an extraction that ended with status 0 after printing an error line
C15_Witness ==
    /\ pc = "ex_ret"
    /\ exErr = "ok"
    /\ exOut = "ERROR: f.txt\n"
    /\ exRet = "nil"

\* C16: at most one testPassword attempt (its goroutine and its 7z process)
\* exists at any time, none exists while crackArchive takes up the next
\* candidate and reports progress, and none exists when handleCrackFailed
\* appends the typed password to passwd.txt.
C16_OneAttemptAtATime ==
    /\ Len(attempts) <= 1
    /\ pc = "crack_loop" => attempts = << >>
    /\ (pc = "ex_ret" /\ exCaller = "manual") => attempts = << >>

\* C17: two calls of getAllPasswords over the same file contents give the
\* candidates in the same order.
C17_StableCandidateOrder ==
    [][ Dict_Reload => passwords' = passwords ]_vars

\* C18: the ticker goroutine exists only while the main goroutine is in
\* extractArchive between the start of the goroutine and the send on done;
\* wherever extractArchive has returned, with or without error, or was never
\* in its run, there is none.
C18_TickerStoppedOnReturn ==
    /\ pc \notin {"ex_run", "ex_stop"} => ticker = "off"
    /\ pc \in {"ex_run", "ex_stop"} => ticker \in {"select", "sleep"}

\* extractArchive has returned an error of the tool after the ticker ran
C18_Witness ==
    /\ pc = "ex_ret"
    /\ exErr = "exit"
    /\ exRet = "err"
    /\ ticker = "off"

\* C19: the program never panics.
C19_NoPanic == pc # "panic"

\* a file readPasswordFile gets passwords from
Readable(f) == f.exists /\ Fault(f) = "none"

\* C20: with one of the two dictionary files failing (missing, not to be
\* opened, ending in a scan error or timing out), getAllPasswords returns
\* the candidates of the other file, each once; it has nothing to return
\* only when the other file holds no candidate.
C20_ReadFailureIsLocal ==
    pc = "loaded" =>
        LET good == {p \in {ExeDict, WorkDict} : Readable(dictFiles[p])}
            want == UNION {TrimmedLines(FileOf(dictFiles[p].content)) : p \in good}
        IN  /\ SeqRange(passwords) = want
            /\ Len(passwords) = Cardinality(want)

\* passwd.txt of the current directory, read first, timed out, and the two
\* candidates of the one next to the executable were returned
C20_Witness ==
    /\ pc = "loaded"
    /\ Fault(dictFiles[WorkDict]) = "timeout"
    /\ Readable(dictFiles[ExeDict])
    /\ Len(passwords) = 2

\* the lines of the passwd.txt next to the executable
SavedFileLines(files) ==
    IF files[ExeDict].exists THEN SeqRange(ScanLines(files[ExeDict].content)) ELSE {}

SavedText(files) ==
    IF files[ExeDict].exists THEN files[ExeDict].content ELSE ""

\* C21: savePasswordToFile(p) appends p as a new line exactly when p is not
\* already one of the lines of passwd.txt: afterwards p is a complete line of
\* the file, what the file held before is a prefix of what it holds now, and
\* a call that finds p among the lines leaves the file as it is.
C21_SaveAppendsWhenNotALine ==
    [][ Save_Call =>
          /\ exPassword \in SavedFileLines(dictFiles')
          /\ \E t \in {""} \cup {x \o exPassword \o "\n" : x \in {"", "\n"}} :
               SavedText(dictFiles') = SavedText(dictFiles) \o t
          /\ (SavedText(dictFiles') # SavedText(dictFiles))
               <=> (exPassword \notin SavedFileLines(dictFiles)) ]_vars

\* the candidate the claim gives for line i of a dictionary file: a
\* byte-order mark leading the first line is dropped, then the line trimmed
BomFreeLine(l, i) ==
    TrimSpace(IF i = 1 /\ Len(l) > 0 /\ CharAt(l, 1) = BOM
              THEN SubSeq(l, 2, Len(l)) ELSE l)

\* C22: the candidates loaded from a dictionary file are its lines with a
\* leading byte-order mark and surrounding whitespace removed, and a line
\* that is blank after that gives no candidate: a first line BOM P gives P.
C22_BomAndWhitespaceTrimmed ==
    pc = "loaded" =>
        LET lines == ScanLines(dictFiles[ExeDict].content)
        IN  SeqRange(passwords)
              = {BomFreeLine(lines[i], i) : i \in 1..Len(lines)} \ {""}

RECURSIVE NumberOf(_)
\* the number a string of decimal digits stands for
NumberOf(s) ==
    IF Len(s) = 0 THEN 0
    ELSE 10 * NumberOf(SubSeq(s, 1, Len(s) - 1))
         + (CHOOSE d \in 0..9 : CharAt("0123456789", d + 1) = CharAt(s, Len(s)))

RECURSIVE NewerByNumbers(_, _, _)
\* 1, -1 or 0 as the version with parts b is newer than, older than or the
\* same as the one with parts a, the parts compared as numbers from index i
\* on and a version that only continues the other being the newer one
NewerByNumbers(a, b, i) ==
    IF i <= Len(a) /\ i <= Len(b)
    THEN IF NumberOf(a[i]) < NumberOf(b[i]) THEN 1
         ELSE IF NumberOf(a[i]) > NumberOf(b[i]) THEN -1
         ELSE NewerByNumbers(a, b, i + 1)
    ELSE IF Len(b) > Len(a) THEN 1 ELSE IF Len(b) < Len(a) THEN -1 ELSE 0

\* C23: compareVersions(newVersion) is 1, -1 or 0 as newVersion is newer
\* than, older than or the same as CurrentVersion, the dot-separated parts
\* after an optional leading v compared as numbers; swapping the two
\* versions negates the result.
C23_VersionsComparedAsNumbers ==
    upc \in {"set_info", "done"} =>
        /\ compareResult
             = NewerByNumbers(Split(TrimPrefix(currentVersion, "v"), "."),
                              Split(TrimPrefix(info.Version, "v"), "."), 1)
        /\ compareVersions(info.Version, currentVersion) = 0 - compareResult

C25_ExtractOnlyAcceptedPassword ==
    /\ [](InExtract =>
            \/ /\ exCaller = "nopass"
               /\ exPassword = ""
               /\ ~isPasswordRequired(fileType)
               /\ tested = << >>
            \/ /\ exCaller \in {"found", "manual"}
               /\ tpPassword = exPassword
               /\ tpRet
               /\ exCaller = "found" =>
                    /\ tested # << >>
                    /\ Len(results) = Len(tested)
                    /\ tested[Len(tested)] = exPassword
                    /\ results[Len(results)])
    /\ [][ (dictFiles' # dictFiles /\ pc # "main") =>
              /\ pc = "ex_ret"
              /\ exCaller = "manual"
              /\ tpCaller = "manual"
              /\ tpRet
              /\ dictFiles' = savePasswordToFile(dictFiles, tpPassword) ]_vars

\* a typed password was accepted, the extraction with it has ended and the
\* password is about to be saved
C25_Witness ==
    /\ pc = "ex_ret"
    /\ exCaller = "manual"
    /\ exPassword = "m"
    /\ tpRet
    /\ ~Contains(SavedText(dictFiles), "m")

\* where the main goroutine is between the start of processArchive and its
\* return
InProcessArchive == InCrackStage \/ InExtract \/ pc = "pa_ret"

\* C26: the os.Exit at the end of the doUpdate that CheckUpdate calls for a
\* forced update is not reached while the main goroutine is inside
\* processArchive.
C26_NoUpdateExitDuringProcessArchive ==
    [][ (exited = "" /\ exited' = "updater") => ~InProcessArchive ]_vars

\* the download of caller c ended with the whole body read and written, and
\* update.tmp has the digest of the VersionInfo when that names one
DownloadGood(c) ==
    /\ du[c].download = "complete"
    /\ du[c].info.MD5 # "" => (updateTmp # NoTmp /\ MD5Of(updateTmp) = du[c].info.MD5)

\* C27: doUpdate writes and starts update.bat only when the artifact was
\* read and written to update.tmp completely and without error and, with an
\* MD5 in the VersionInfo, the file has that digest; otherwise it returns
\* an error and the script is neither written nor started.
C27_ScriptOnlyAfterGoodDownload ==
    [][ (updateBat' # updateBat \/ launched' # launched) =>
           \E c \in Callers :
              /\ du[c].pc = "script"
              /\ du'[c].pc # "script"
              /\ DownloadGood(c) ]_vars

\* C28: a message about a new version, waiting on updateResultChan or taken
\* from it by handleUpdateAndExit, is never there before the goroutine has
\* stored the globals: updateManager is set and updateInfo is the
\* VersionInfo the message was built from.
C28_GlobalsSetBeforeMessage ==
    /\ \A i \in 1..Len(updateResultChan) :
         IsNewVersionMsg(updateResultChan[i]) =>
            /\ updateManager = "set"
            /\ updateInfo = info
            /\ updateResultChan[i] = NewVersionMsg(updateInfo)
    /\ pc \in {"hue_prompt", "hue_update"} =>
            /\ updateManager = "set"
            /\ updateInfo = info
            /\ updateMsg = NewVersionMsg(updateInfo)

\* handleUpdateAndExit has taken the message about a new version while the
\* goroutine that sent it is still running, inside its own doUpdate
C28_Witness ==
    /\ pc = "hue_prompt"
    /\ IsNewVersionMsg(updateMsg)
    /\ upc = "update"

\* C29: the goroutine that readLargeFile starts ends in every run, whether
\* readLargeFile returned the result, the error or the timeout: its send on
\* resultChan or errorChan does not wait forever.
C29_ReaderTerminates ==
    (reader # "none") ~> (reader = "done")

=============================================================================
